---- MODULE Spec2Model ----
(***************************************************************************)
(* CarbonX AVS: the KYC service manager (the ledger side of the task /     *)
(* attestation protocol) as a state machine.                               *)
(*                                                                         *)
(* One step of the machine is one transaction (a call of an external       *)
(* function of CarbonXServiceManagerUpgradeable), one mined block, or one  *)
(* change of the operator registry the contract consults.  A transaction   *)
(* that reverts leaves the whole storage as it was (EVM semantics): only   *)
(* the outcome of the call, kept in lastCall, tells it from no step.       *)
(***************************************************************************)
EXTENDS Integers, Sequences, FiniteSets, TLC

\* ------------------------------------------------------------------ bounds

\* Addresses are 0 .. NumAddr; 0 is address(0).
NumAddr == 2
\* Task IDs the mappings hold: 0 .. MaxTasks (caps nextTaskId).
MaxTasks == 2
\* Tasks created in one run with the open environment (Spec).
TasksPerRun == 1
\* Highest block number of a run; the chain starts at block 1.
MaxBlock == 3
\* Highest block number of a run with the open environment (Spec, SpecManyTasks).
BlocksPerRun == 2
\* Poll ticks of the operator service in flight at once.
MaxTicks == 2
\* Times the operator service is started in a run.
MaxLifetimes == 1
\* BLOCK_RANGE of monitorTasks (100 in the source), scaled to the blocks of a run.
BLOCK_RANGE == 0
\* Width given to the uint32 task counter, in bits: the counter's arithmetic is
\* the code's, on a type scaled down so that its limit is met in a run.
IdBits == 2
\* width of the block-number arithmetic of the expiry check (uint32 in the
\* source), scaled so that the initial threshold of 7200 blocks fits
BlockBits == 13
\* width of the timestamp arithmetic of the stored result (uint256 in the
\* source), scaled so that the initial validity period of 365 days fits
TimeBits == 25
\* Achieved levels passed to respondToKYCTask are NONE .. MaxLevelArg
\* (reads range over the whole enum).
MaxLevelArg == 2

\* Project task IDs the project contract's mappings hold: 0 .. MaxProjects.
MaxProjects == 2

\* Tasks created per category in a run of the multi-category service.
TasksPerCategory == 1
\* Callbacks of one category's interval in flight at once.
MonitorTicks == 2
\* runs of the manual project responder in one behaviour
ResponderRuns == 1

\* ------------------------------------------------------- program constants

\* enum KYCLevel
NONE == 0
BASIC == 1
INTERMEDIATE == 2
ADVANCED == 3
ACCREDITED == 4
\* enum TaskStatus
PENDING == 0
COMPLETED == 1
EXPIRED == 2
\* enum VerificationStatus (PENDING = 0 and BASIC = 1 as above)
STANDARD == 2
PREMIUM == 3
REJECTED == 4
\* initialize()
InitialNextTaskId == 1
InitialTaskExpiryBlocks == 7200
InitialKycValidityPeriod == 31536000

\* mutant: initialize leaves the counter at the zero value of storage
nextTaskIdNotInitialized == InitialNextTaskId - 1

\* the counter's value after initialize
FirstTaskId == InitialNextTaskId

\* type(uint32).max, for the task counter
Uint32Max == 2^IdBits - 1

KYCLevel == NONE .. ACCREDITED
TaskStatus == {PENDING, COMPLETED, EXPIRED}

ZeroAddress == 0
Address == 0 .. NumAddr
\* msg.sender is never address(0)
Sender == 1 .. NumAddr
\* the owner set by initialize(_owner)
owner == 1
\* address(this) of the service manager, and the address of another deployment
This == 100
OtherLedger == 101

\* CONTRACT_ADDRESS: the project verification contract's address
CONTRACT_ADDRESS == 200
\* testProject.estimatedCredits (in tonnes)
EstimatedCredits == 500

\* mapping keys: task IDs 0 .. MaxTasks (0 is never assigned: nextTaskId starts at 1)
TaskId == 0 .. MaxTasks
LevelArg == NONE .. MaxLevelArg
\* required levels passed to the creation functions: the null level and one real level
RequiredLevelArg == {NONE, MaxLevelArg}
\* ipfsHash strings: 0 is the empty string
IpfsHash == {1, 2}
IpfsArg == {1}
\* bytes32 request identifiers passed by callers; <<>> is bytes32(0)
RequestIdArg == {<<7>>}
\* values the owner passes to setConfig
ExpiryArg == {0}
ValidityArg == {0, 1}
\* addresses the owner adds to / removes from the authorized callers
CallerArg == Sender \ {owner}

VARIABLES
    nextTaskId,          \* uint32 public nextTaskId
    tasks,               \* mapping(uint32 => KYCTask)
    taskHashes,          \* mapping(uint32 => bytes32)
    taskResponses,       \* mapping(uint32 => bytes)
    kycResults,          \* mapping(address => KYCResult)
    taskExpiryBlocks,    \* uint32
    kycValidityPeriod,   \* uint256
    authorizedCallers,   \* mapping(address => bool), as the set of true keys
    operatorRegistered,  \* ECDSAStakeRegistry(stakeRegistry).operatorRegistered, as a set
    blockNumber,         \* block.number
    blockTimestamp,      \* block.timestamp
    lastCall             \* the last transaction: function, task, error, level of the event emitted

ledger == <<nextTaskId, tasks, taskHashes, taskResponses, kycResults,
            taskExpiryBlocks, kycValidityPeriod, authorizedCallers>>
chain == <<blockNumber, blockTimestamp>>
vars == <<nextTaskId, tasks, taskHashes, taskResponses, kycResults,
          taskExpiryBlocks, kycValidityPeriod, authorizedCallers,
          operatorRegistered, blockNumber, blockTimestamp, lastCall>>

VARIABLES
    running,             \* the operator service's process is alive (main is past startup)
    lastCheckedBlock,    \* monitorTasks: let lastCheckedBlock
    processedTasks,      \* main: const processedTasks = new Set<number>()
    ticks,               \* the setInterval callbacks in flight, by slot
    listeners,           \* the KYCTaskCreated listener's calls, by the event's task
    startupBlock,        \* history: the block number read at startup
    queried,             \* history: the blocks covered by completed queries since startup
    handed,              \* history: times each task entered the processing branch since startup
    submissions,         \* history: times a response was submitted for each task since startup
    lifetimes,           \* history: times the service was started
    watcherLog           \* history: the service's last step

watcher == <<running, lastCheckedBlock, processedTasks, ticks, listeners,
             startupBlock, queried, handed, submissions, lifetimes, watcherLog>>

\* the project verification contract, by its interface (ABI)
VARIABLES
    latestTaskNum,       \* latestTaskNum()
    projectSubmissions,  \* getSubmission(taskId)
    verificationResults, \* getVerificationResult(taskId)
    operators,           \* operators(address), as the set of true keys
    lastProjectCall      \* the last transaction sent to the project contract

projectLedger == <<latestTaskNum, projectSubmissions, verificationResults, operators,
                   lastProjectCall>>

\* the operator service for both categories (KYC + project verification)
VARIABLES
    mainPc,              \* where main is: not run, inside a monitor's startup, running, exited
    started,             \* the categories whose setInterval has been set
    lastBlock,           \* monitorKYC / monitorProjects: let lastBlock, one per closure
    processedTaskKeys,   \* main: const processedTasks = new Set<string>(), shared
    monitors,            \* the setInterval callbacks in flight, per category and slot
    categoryEvents,      \* the block of each creation event, per category and task
    serviceLog           \* history: the service's last step and its category

categories == <<mainPc, started, lastBlock, processedTaskKeys, monitors, categoryEvents,
                serviceLog>>

\* the manual project responder (respondToProject.ts)
VARIABLES
    responder            \* where main is, its arguments and what it has read

manual == <<responder>>

\* everything outside the KYC service manager and the chain
others == <<watcher, projectLedger, categories, manual>>

\* ------------------------------------------------------------------ values

\* a KYCTask slot never written (Solidity's zero value)
EmptyTask ==
    [user |-> ZeroAddress, requiredLevel |-> NONE, taskCreatedBlock |-> 0,
     status |-> PENDING, requestId |-> <<>>]

\* a KYCResult slot never written
EmptyResult ==
    [level |-> NONE, verifiedAt |-> 0, expiresAt |-> 0, verifiedBy |-> ZeroAddress,
     ipfsHash |-> 0, active |-> FALSE]

\* bytes never written
EmptyBytes == [signer |-> ZeroAddress, digest |-> <<>>, wellFormed |-> FALSE]

\* keccak256 of an encoding, modelled as the encoded tuple (collision-free)
keccak256(encoded) == encoded

\* mutant: the ledger's address is left out of the packed message
encodePackedWithoutLedger(taskId, user, achievedLevel, ipfsHash, ledgerAddress) ==
    <<taskId, user, achievedLevel, ipfsHash>>

\* abi.encodePacked(taskId, task.user, achievedLevel, ipfsHash, address(this)):
\* three fixed-width fields, one string, one fixed-width field: injective
encodePacked(taskId, user, achievedLevel, ipfsHash, ledgerAddress) ==
    <<taskId, user, achievedLevel, ipfsHash, ledgerAddress>>

\* ECDSA.toEthSignedMessageHash: the hash of the prefixed 32-byte hash
toEthSignedMessageHash(messageHash) ==
    <<"\\x19Ethereum Signed Message:\\n32", messageHash>>

\* wallet.signMessage(getBytes(messageHash)): a 65-byte signature by the
\* wallet's key over the prefixed hash
signMessage(wallet, messageHash) ==
    [signer |-> wallet, digest |-> toEthSignedMessageHash(messageHash),
     wellFormed |-> TRUE]

\* ethers.solidityPackedKeccak256(types, values): the hash of the packed values
solidityPackedKeccak256(values) == keccak256(values)

\* mutant: the packed values are hashed in another order (the contract
\* address before the proof reference)
signResponseOtherOrder(wallet, taskId, userAddress, achievedLevel, ipfsHash, contractAddress) ==
    signMessage(wallet,
                solidityPackedKeccak256(<<taskId, userAddress, achievedLevel, contractAddress,
                                          ipfsHash>>))

\* the operator's signResponse: the wallet's signature over the packed
\* (uint32 taskId, address user, uint8 level, string ipfsHash, address contract)
signResponse(wallet, taskId, userAddress, achievedLevel, ipfsHash, contractAddress) ==
    signMessage(wallet,
                solidityPackedKeccak256(<<taskId, userAddress, achievedLevel, ipfsHash,
                                          contractAddress>>))

\* bytes that are no signature at all (wrong length, invalid s or v)
MalformedSignature == [signer |-> ZeroAddress, digest |-> <<>>, wellFormed |-> FALSE]

\* the address ecrecover yields for a signature made over another digest:
\* an address nobody holds
UnrelatedAddress == -1

\* ECDSA.recover, for a well-formed signature
recover(ethSignedHash, signature) ==
    IF signature.digest = ethSignedHash THEN signature.signer ELSE UnrelatedAddress

\* --------------------------------------------------------------- modifiers

\* mutant: the modifier lets every caller through
onlyOperatorSkipped(sender) == TRUE

\* modifier onlyOperator: the stake registry's operatorRegistered(msg.sender)
onlyOperator(sender) == sender \in operatorRegistered

\* mutant: the modifier lets every caller through
onlyAuthorizedCallerSkipped(sender) == TRUE

\* modifier onlyAuthorizedCaller
onlyAuthorizedCaller(sender) == sender \in authorizedCallers \/ sender = owner

\* OwnableUpgradeable's onlyOwner
onlyOwner(sender) == sender = owner

\* ------------------------------------------------------------ view functions

\* mutant: the level comparison is strict
hasValidKYCStrict(user, requiredLevel) ==
    LET result == kycResults[user]
    IN  result.active /\ result.expiresAt > blockTimestamp /\ result.level > requiredLevel

\* mutant: the level must match exactly
hasValidKYCExact(user, requiredLevel) ==
    LET result == kycResults[user]
    IN  result.active /\ result.expiresAt > blockTimestamp /\ result.level = requiredLevel

\* mutant: a result is still valid at its expiry time
hasValidKYCLate(user, requiredLevel) ==
    LET result == kycResults[user]
    IN  result.active /\ result.expiresAt >= blockTimestamp /\ result.level >= requiredLevel

hasValidKYC(user, requiredLevel) ==
    LET result == kycResults[user]
    IN  result.active /\ result.expiresAt > blockTimestamp /\ result.level >= requiredLevel

\* mutant: a result is still reported in the second it expires
getUserKYCLevelLate(user) ==
    LET result == kycResults[user]
    IN  IF ~result.active \/ result.expiresAt < blockTimestamp
        THEN NONE
        ELSE result.level

getUserKYCLevel(user) ==
    LET result == kycResults[user]
    IN  IF ~result.active \/ result.expiresAt <= blockTimestamp
        THEN NONE
        ELSE result.level

getKYCResult(user) == kycResults[user]

getTask(taskId) == tasks[taskId]

isOperator(operator) == operator \in operatorRegistered

\* ------------------------------------------------------------ task creation

\* mutant: a result at exactly the required level does not count
AlreadyVerifiedStrict(user, requiredLevel) ==
    LET existing == kycResults[user]
    IN  existing.active /\ existing.expiresAt > blockTimestamp
            /\ existing.level > requiredLevel

\* the check both creation functions make on the subject's stored result
AlreadyVerified(user, requiredLevel) ==
    LET existing == kycResults[user]
    IN  existing.active /\ existing.expiresAt > blockTimestamp
            /\ existing.level >= requiredLevel

\* nextTaskId++ is checked arithmetic (Solidity 0.8): at the type's limit the
\* call reverts with Panic(0x11)
IncrementOverflows(id) == id = Uint32Max

\* mutant: the counter is read but not incremented
IncrementTaskIdForgotten(id) == id

\* nextTaskId++ : the counter after the post-increment
IncrementTaskId(id) == id + 1

\* the KYCTask written by a creation call
NewTask(user, requiredLevel, requestId) ==
    [user |-> user, requiredLevel |-> requiredLevel, taskCreatedBlock |-> blockNumber,
     status |-> PENDING, requestId |-> requestId]

\* a reverted creation call: no storage change, no ID returned
CreationReverted(err) ==
    [err |-> err, taskId |-> 0, nextTaskId |-> nextTaskId, tasks |-> tasks,
     taskHashes |-> taskHashes]

\* mutant: every creation writes the record of the first task id
CreationStoredOverFirst(user, requiredLevel, requestId) ==
    LET taskId == InitialNextTaskId
        newTask == NewTask(user, requiredLevel, requestId)
    IN  [err |-> "OK", taskId |-> taskId, nextTaskId |-> IncrementTaskId(nextTaskId),
         tasks |-> [tasks EXCEPT ![taskId] = newTask],
         taskHashes |-> [taskHashes EXCEPT ![taskId] = keccak256(newTask)]]

\* the storage writes of a creation call that passed its checks
CreationStored(user, requiredLevel, requestId) ==
    LET taskId == nextTaskId
        newTask == NewTask(user, requiredLevel, requestId)
    IN  [err |-> "OK", taskId |-> taskId, nextTaskId |-> IncrementTaskId(nextTaskId),
         tasks |-> [tasks EXCEPT ![taskId] = newTask],
         taskHashes |-> [taskHashes EXCEPT ![taskId] = keccak256(newTask)]]

\* createKYCTask(user, requiredLevel, requestId) called by sender: the error
\* it reverts with, "OK" when it does not revert
createKYCTaskError(sender, user, requiredLevel) ==
    IF ~onlyAuthorizedCaller(sender) THEN "NotAuthorizedCaller"
    ELSE IF requiredLevel = NONE THEN "InvalidLevel"
    ELSE IF AlreadyVerified(user, requiredLevel) THEN "AlreadyVerified"
    ELSE IF IncrementOverflows(nextTaskId) THEN "Panic"
    ELSE "OK"

\* createKYCTask: its outcome
createKYCTaskOutcome(sender, user, requiredLevel, requestId) ==
    LET err == createKYCTaskError(sender, user, requiredLevel)
    IN  IF err = "OK" THEN CreationStored(user, requiredLevel, requestId)
                      ELSE CreationReverted(err)

\* requestKYC(requiredLevel) called by sender: the error it reverts with
requestKYCError(sender, requiredLevel) ==
    IF requiredLevel = NONE THEN "InvalidLevel"
    ELSE IF AlreadyVerified(sender, requiredLevel) THEN "AlreadyVerified"
    ELSE IF IncrementOverflows(nextTaskId) THEN "Panic"
    ELSE "OK"

\* requestKYC: its outcome
requestKYCOutcome(sender, requiredLevel) ==
    LET err == requestKYCError(sender, requiredLevel)
    IN  IF err = "OK"
        THEN CreationStored(sender, requiredLevel,
                            keccak256(<<sender, blockTimestamp, nextTaskId>>))
        ELSE CreationReverted(err)

\* ------------------------------------------------------------- task response

\* line 194: a task exists when its user is not address(0)
TaskFound(task) == task.user # ZeroAddress

\* mutant: the status is not checked
TaskPendingNotChecked(task) == TRUE

\* line 195
TaskPending(task) == task.status = PENDING

\* mutant: the threshold is the one in force when the contract was initialized
TaskPastExpiryAtCreation(task) == blockNumber > task.taskCreatedBlock + InitialTaskExpiryBlocks

\* line 198
TaskPastExpiry(task) == blockNumber > task.taskCreatedBlock + taskExpiryBlocks

\* type(uint32).max of the block arithmetic, at the scaled width
BlockUint32Max == 2^BlockBits - 1

\* line 198: both operands of the sum are uint32, and Solidity 0.8 checks the
\* addition: a sum above type(uint32).max reverts with Panic(0x11)
ExpirySumOverflows(task) == task.taskCreatedBlock + taskExpiryBlocks > BlockUint32Max

\* lines 204-206: the message the contract recomputes
MessageHash(taskId, user, achievedLevel, ipfsHash) ==
    keccak256(encodePacked(taskId, user, achievedLevel, ipfsHash, This))

\* mutant: the recovered signer is not compared with the sender
SignerNotChecked(taskId, user, achievedLevel, ipfsHash, signature, sender) == TRUE

\* line 210, after recover has accepted the signature's form
SignerIsSender(taskId, user, achievedLevel, ipfsHash, signature, sender) ==
    recover(toEthSignedMessageHash(MessageHash(taskId, user, achievedLevel, ipfsHash)),
            signature) = sender

\* lines 204-210 as run by an instance of the contract deployed at
\* ledgerAddress, for a task with the same ID and user: recover accepts the
\* signature's form and yields the sender
SignatureVerifiesAt(ledgerAddress, taskId, user, achievedLevel, ipfsHash, signature, sender) ==
    /\ signature.wellFormed
    /\ recover(toEthSignedMessageHash(
                  keccak256(encodePacked(taskId, user, achievedLevel, ipfsHash,
                                         ledgerAddress))),
              signature) = sender

\* lines 217-224
NewResult(sender, achievedLevel, ipfsHash) ==
    [level |-> achievedLevel, verifiedAt |-> blockTimestamp,
     expiresAt |-> blockTimestamp + kycValidityPeriod, verifiedBy |-> sender,
     ipfsHash |-> ipfsHash, active |-> TRUE]

\* type(uint256).max of the timestamp arithmetic, at the scaled width
TimeUint256Max == 2^TimeBits - 1

\* line 220: block.timestamp + kycValidityPeriod is a checked uint256 sum: above
\* type(uint256).max it reverts with Panic(0x11)
ValiditySumOverflows == blockTimestamp + kycValidityPeriod > TimeUint256Max

\* revert: every storage write the call made so far (written) is undone
Revert(err, written) ==
    [err |-> err, tasks |-> tasks, taskResponses |-> taskResponses,
     kycResults |-> kycResults]

\* mutant: the response is stored before the signature is verified, and a bad
\* signature makes the call return without reverting
respondToKYCTaskStoresFirst(sender, taskId, achievedLevel, ipfsHash, signature) ==
    LET task == tasks[taskId]
        stored == [taskResponses EXCEPT ![taskId] = signature]
    IN  IF ~onlyOperator(sender) THEN Revert("NotOperator", tasks)
        ELSE IF ~TaskFound(task) THEN Revert("TaskNotFound", tasks)
        ELSE IF ~TaskPending(task) THEN Revert("TaskNotPending", tasks)
        ELSE IF ExpirySumOverflows(task) THEN Revert("Panic", tasks)
        ELSE IF TaskPastExpiry(task) THEN Revert("TaskExpired", tasks)
        ELSE IF ~signature.wellFormed THEN Revert("ECDSAInvalidSignature", tasks)
        ELSE IF ~SignerIsSender(taskId, task.user, achievedLevel, ipfsHash, signature, sender)
            THEN [err |-> "InvalidSignature", tasks |-> tasks, taskResponses |-> stored,
                  kycResults |-> kycResults]
        ELSE [err |-> "OK",
              tasks |-> [tasks EXCEPT ![taskId].status = COMPLETED],
              taskResponses |-> stored,
              kycResults |-> [kycResults EXCEPT
                                ![task.user] = NewResult(sender, achievedLevel, ipfsHash)]]

\* mutant: the expiry check of line 198 is made before the status check of
\* line 195
respondToKYCTaskExpiryFirst(sender, taskId, achievedLevel, ipfsHash, signature) ==
    LET task == tasks[taskId]
    IN  IF ~onlyOperator(sender) THEN Revert("NotOperator", tasks)
        ELSE IF ~TaskFound(task) THEN Revert("TaskNotFound", tasks)
        ELSE IF ExpirySumOverflows(task) THEN Revert("Panic", tasks)
        ELSE IF TaskPastExpiry(task)
            THEN Revert("TaskExpired", [tasks EXCEPT ![taskId].status = EXPIRED])
        ELSE IF ~TaskPending(task) THEN Revert("TaskNotPending", tasks)
        ELSE IF ~signature.wellFormed THEN Revert("ECDSAInvalidSignature", tasks)
        ELSE IF ~SignerIsSender(taskId, task.user, achievedLevel, ipfsHash, signature, sender)
            THEN Revert("InvalidSignature", tasks)
        ELSE IF ValiditySumOverflows
            THEN Revert("Panic", [tasks EXCEPT ![taskId].status = COMPLETED])
        ELSE [err |-> "OK",
              tasks |-> [tasks EXCEPT ![taskId].status = COMPLETED],
              taskResponses |-> [taskResponses EXCEPT ![taskId] = signature],
              kycResults |-> [kycResults EXCEPT
                                ![task.user] = NewResult(sender, achievedLevel, ipfsHash)]]

\* mutant: a response at a level below the stored one leaves the result as it is
respondToKYCTaskKeepsHigher(sender, taskId, achievedLevel, ipfsHash, signature) ==
    LET task == tasks[taskId]
    IN  IF ~onlyOperator(sender) THEN Revert("NotOperator", tasks)
        ELSE IF ~TaskFound(task) THEN Revert("TaskNotFound", tasks)
        ELSE IF ~TaskPending(task) THEN Revert("TaskNotPending", tasks)
        ELSE IF ExpirySumOverflows(task) THEN Revert("Panic", tasks)
        ELSE IF TaskPastExpiry(task)
            THEN Revert("TaskExpired", [tasks EXCEPT ![taskId].status = EXPIRED])
        ELSE IF ~signature.wellFormed THEN Revert("ECDSAInvalidSignature", tasks)
        ELSE IF ~SignerIsSender(taskId, task.user, achievedLevel, ipfsHash, signature, sender)
            THEN Revert("InvalidSignature", tasks)
        ELSE IF ValiditySumOverflows
            THEN Revert("Panic", [tasks EXCEPT ![taskId].status = COMPLETED])
        ELSE [err |-> "OK",
              tasks |-> [tasks EXCEPT ![taskId].status = COMPLETED],
              taskResponses |-> [taskResponses EXCEPT ![taskId] = signature],
              kycResults |-> IF kycResults[task.user].active /\ kycResults[task.user].level > achievedLevel
                             THEN kycResults
                             ELSE [kycResults EXCEPT ![task.user] = NewResult(sender, achievedLevel, ipfsHash)]]

\* respondToKYCTask(taskId, achievedLevel, ipfsHash, signature) called by
\* sender: its outcome.  The modifier runs before the body.
respondToKYCTaskOutcome(sender, taskId, achievedLevel, ipfsHash, signature) ==
    LET task == tasks[taskId]
    IN  IF ~onlyOperator(sender) THEN Revert("NotOperator", tasks)
        ELSE IF ~TaskFound(task) THEN Revert("TaskNotFound", tasks)
        ELSE IF ~TaskPending(task) THEN Revert("TaskNotPending", tasks)
        ELSE IF ExpirySumOverflows(task) THEN Revert("Panic", tasks)
        ELSE IF TaskPastExpiry(task)
            THEN Revert("TaskExpired", [tasks EXCEPT ![taskId].status = EXPIRED])
        ELSE IF ~signature.wellFormed THEN Revert("ECDSAInvalidSignature", tasks)
        ELSE IF ~SignerIsSender(taskId, task.user, achievedLevel, ipfsHash, signature, sender)
            THEN Revert("InvalidSignature", tasks)
        ELSE IF ValiditySumOverflows
            THEN Revert("Panic", [tasks EXCEPT ![taskId].status = COMPLETED])
        ELSE [err |-> "OK",
              tasks |-> [tasks EXCEPT ![taskId].status = COMPLETED],
              taskResponses |-> [taskResponses EXCEPT ![taskId] = signature],
              kycResults |-> [kycResults EXCEPT
                                ![task.user] = NewResult(sender, achievedLevel, ipfsHash)]]

\* ------------------------------------------------------------------ actions

Call(op, taskId, level, err) == [op |-> op, taskId |-> taskId, level |-> level, err |-> err]

createKYCTask(sender, user, requiredLevel, requestId) ==
    /\ createKYCTaskError(sender, user, requiredLevel) = "OK" => nextTaskId <= MaxTasks
    /\ LET out == createKYCTaskOutcome(sender, user, requiredLevel, requestId)
       IN
        /\ nextTaskId' = out.nextTaskId
        /\ tasks' = out.tasks
        /\ taskHashes' = out.taskHashes
        /\ lastCall' = Call("createKYCTask", out.taskId,
                            IF out.err = "OK" THEN requiredLevel ELSE NONE, out.err)
        /\ UNCHANGED <<taskResponses, kycResults, taskExpiryBlocks, kycValidityPeriod,
                       authorizedCallers, operatorRegistered, chain>>

requestKYC(sender, requiredLevel) ==
    /\ requestKYCError(sender, requiredLevel) = "OK" => nextTaskId <= MaxTasks
    /\ LET out == requestKYCOutcome(sender, requiredLevel)
       IN
        /\ nextTaskId' = out.nextTaskId
        /\ tasks' = out.tasks
        /\ taskHashes' = out.taskHashes
        /\ lastCall' = Call("requestKYC", out.taskId,
                            IF out.err = "OK" THEN requiredLevel ELSE NONE, out.err)
        /\ UNCHANGED <<taskResponses, kycResults, taskExpiryBlocks, kycValidityPeriod,
                       authorizedCallers, operatorRegistered, chain>>

respondToKYCTask(sender, taskId, achievedLevel, ipfsHash, signature) ==
    LET out == respondToKYCTaskOutcome(sender, taskId, achievedLevel, ipfsHash, signature)
    IN  /\ tasks' = out.tasks
        /\ taskResponses' = out.taskResponses
        /\ kycResults' = out.kycResults
        /\ lastCall' = Call("respondToKYCTask", taskId,
                            IF out.err = "OK" THEN achievedLevel ELSE NONE, out.err)
        /\ UNCHANGED <<nextTaskId, taskHashes, taskExpiryBlocks, kycValidityPeriod,
                       authorizedCallers, operatorRegistered, chain>>

\* The four owner functions: a call by anyone but the owner reverts in
\* OwnableUpgradeable's onlyOwner and changes nothing, so only the owner's
\* calls are steps.
addAuthorizedCaller(sender, caller) ==
    /\ onlyOwner(sender)
    /\ authorizedCallers' = authorizedCallers \cup {caller}
    /\ lastCall' = Call("addAuthorizedCaller", 0, NONE, "OK")
    /\ UNCHANGED <<nextTaskId, tasks, taskHashes, taskResponses, kycResults,
                   taskExpiryBlocks, kycValidityPeriod, operatorRegistered, chain>>

removeAuthorizedCaller(sender, caller) ==
    /\ onlyOwner(sender)
    /\ authorizedCallers' = authorizedCallers \ {caller}
    /\ lastCall' = Call("removeAuthorizedCaller", 0, NONE, "OK")
    /\ UNCHANGED <<nextTaskId, tasks, taskHashes, taskResponses, kycResults,
                   taskExpiryBlocks, kycValidityPeriod, operatorRegistered, chain>>

\* mutant: the revocation deletes the stored result
revokeKYCDeletesResult(sender, user) ==
    /\ onlyOwner(sender)
    /\ kycResults' = [kycResults EXCEPT ![user] = EmptyResult]
    /\ lastCall' = Call("revokeKYC", 0, NONE, "OK")
    /\ UNCHANGED <<nextTaskId, tasks, taskHashes, taskResponses, taskExpiryBlocks,
                   kycValidityPeriod, authorizedCallers, operatorRegistered, chain>>

revokeKYC(sender, user) ==
    /\ onlyOwner(sender)
    /\ kycResults' = [kycResults EXCEPT ![user].active = FALSE]
    /\ lastCall' = Call("revokeKYC", 0, NONE, "OK")
    /\ UNCHANGED <<nextTaskId, tasks, taskHashes, taskResponses, taskExpiryBlocks,
                   kycValidityPeriod, authorizedCallers, operatorRegistered, chain>>

setConfig(sender, _taskExpiryBlocks, _kycValidityPeriod) ==
    /\ onlyOwner(sender)
    /\ taskExpiryBlocks' = _taskExpiryBlocks
    /\ kycValidityPeriod' = _kycValidityPeriod
    /\ lastCall' = Call("setConfig", 0, NONE, "OK")
    /\ UNCHANGED <<nextTaskId, tasks, taskHashes, taskResponses, kycResults,
                   authorizedCallers, operatorRegistered, chain>>

\* the chain mines a block: block.number and block.timestamp both grow
MineBlock ==
    /\ blockNumber < MaxBlock
    /\ blockNumber' = blockNumber + 1
    /\ blockTimestamp' = blockTimestamp + 1
    /\ UNCHANGED <<ledger, operatorRegistered, lastCall>>

\* the stake registry registers / deregisters an operator
registerOperator(operator) ==
    /\ operator \notin operatorRegistered
    /\ operatorRegistered' = operatorRegistered \cup {operator}
    /\ UNCHANGED <<ledger, chain, lastCall>>

deregisterOperator(operator) ==
    /\ operator \in operatorRegistered
    /\ operatorRegistered' = operatorRegistered \ {operator}
    /\ UNCHANGED <<ledger, chain, lastCall>>

\* the signatures a caller of respondToKYCTask submits: its own or another
\* wallet's over the response, its own over a response that differs in the
\* level or in the ledger address, or bytes that are no signature
SignatureArg(sender, taskId, achievedLevel, ipfsHash) ==
    LET user == tasks[taskId].user
    IN  { signResponse(w, taskId, user, achievedLevel, ipfsHash, This) : w \in Sender }
        \cup { signResponse(sender, taskId, user, (achievedLevel + 1) % 5, ipfsHash, This),
               signResponse(sender, taskId, user, achievedLevel, ipfsHash, OtherLedger),
               MalformedSignature }

\* a poll tick not in flight, a listener call not made
\* overlapped: another tick's callback has been between its read of the cursor
\* and its end while this one was
IdleTick ==
    [pc |-> "idle", fromBlock |-> 0, toBlock |-> 0, events |-> <<>>, taskId |-> 0,
     task |-> EmptyTask, overlapped |-> FALSE]

NoCall == [pc |-> "none", task |-> EmptyTask]

\* what the service last wrote to its error log: a polling error of the tick
\* whose range started at fromBlock (and whether that tick was overlapped), a task declined or a proof step failed;
\* "ok" after a step that logs no such line
Log(step, fromBlock, overlapped) ==
    [step |-> step, fromBlock |-> fromBlock, overlapped |-> overlapped]

Quiet == Log("ok", 0, FALSE)

\* the operator service's process not running: it holds no state
Down ==
    /\ running = FALSE
    /\ lastCheckedBlock = 0
    /\ processedTasks = {}
    /\ ticks = [s \in 1 .. MaxTicks |-> IdleTick]
    /\ listeners = [t \in TaskId |-> NoCall]
    /\ startupBlock = 0
    /\ queried = {}
    /\ handed = [t \in TaskId |-> 0]
    /\ submissions = [t \in TaskId |-> 0]

\* project task IDs: 0 is never assigned
ProjectId == 0 .. MaxProjects
\* enum VerificationStatus
VerificationStatus == PENDING .. REJECTED
\* a submission slot never written: owner is ZeroAddress
EmptySubmission ==
    [owner |-> ZeroAddress, name |-> 0, estimatedCredits |-> 0, submittedBlock |-> 0,
     status |-> PENDING]
\* a verification result never written
EmptyVerification ==
    [status |-> PENDING, qualityScore |-> 0, verifiedCredits |-> 0, verifiedAt |-> 0,
     verifiedBy |-> ZeroAddress, verificationUri |-> <<>>, canMint |-> FALSE]

ProjectCall(op, sender, taskId, err) ==
    [op |-> op, sender |-> sender, taskId |-> taskId, err |-> err]

\* the project contract deployed: no submission, no operator
projectDeployed ==
    /\ latestTaskNum = 0
    /\ projectSubmissions = [t \in ProjectId |-> EmptySubmission]
    /\ verificationResults = [t \in ProjectId |-> EmptyVerification]
    /\ operators = {}
    /\ lastProjectCall = ProjectCall("deploy", ZeroAddress, 0, "OK")

\* the manual responder before it is run
ResponderOff ==
    [pc |-> "off", wallet |-> ZeroAddress, taskId |-> 0, owner |-> ZeroAddress,
     estimatedCredits |-> 0, exitCode |-> 0, submitted |-> FALSE, runs |-> 0]

responderNotRun == responder = ResponderOff

\* the two task categories of the service
Category == {"kyc", "project"}
Other(c) == IF c = "kyc" THEN "project" ELSE "kyc"
CategoryTaskId == 1 .. TasksPerCategory

\* no callback of a category's interval in flight
IdleMonitor == [pc |-> "idle", currentBlock |-> 0, fromBlock |-> 0, events |-> <<>>]

ServiceStep(c, step) == [category |-> c, step |-> step]

\* the multi-category service before main runs
serviceNotStarted ==
    /\ mainPc = "off"
    /\ started = {}
    /\ lastBlock = [c \in Category |-> 0]
    /\ processedTaskKeys = {}
    /\ monitors = [c \in Category |-> [s \in 1 .. MonitorTicks |-> IdleMonitor]]
    /\ categoryEvents = [c \in Category |-> [t \in CategoryTaskId |-> 0]]
    /\ serviceLog = ServiceStep("none", "none")

\* the operator service before its first start
NotStarted ==
    /\ Down
    /\ lifetimes = 0
    /\ watcherLog = Quiet

\* initialize(_owner)
initialize ==
    /\ nextTaskId = FirstTaskId
    /\ tasks = [t \in TaskId |-> EmptyTask]
    /\ taskHashes = [t \in TaskId |-> <<>>]
    /\ taskResponses = [t \in TaskId |-> EmptyBytes]
    /\ kycResults = [a \in Address |-> EmptyResult]
    /\ taskExpiryBlocks = InitialTaskExpiryBlocks
    /\ kycValidityPeriod = InitialKycValidityPeriod
    /\ authorizedCallers = {}
    /\ lastCall = Call("initialize", 0, NONE, "OK")

\* the contract initialized on a chain at block 1, no operator registered yet
Init ==
    /\ initialize
    /\ operatorRegistered = {}
    /\ blockNumber = 1
    /\ blockTimestamp = 1
    /\ NotStarted
    /\ projectDeployed
    /\ serviceNotStarted
    /\ responderNotRun

Next ==
    \/ \E sender \in Sender, user \in Address, level \in RequiredLevelArg, requestId \in RequestIdArg :
            /\ createKYCTaskError(sender, user, level) = "OK" => nextTaskId <= TasksPerRun
            /\ createKYCTask(sender, user, level, requestId)
            /\ UNCHANGED others
    \/ \E sender \in Sender, level \in RequiredLevelArg :
            /\ requestKYCError(sender, level) = "OK" => nextTaskId <= TasksPerRun
            /\ requestKYC(sender, level)
            /\ UNCHANGED others
    \/ \E sender \in Sender, taskId \in 1 .. TasksPerRun, level \in LevelArg, ipfsHash \in IpfsArg :
            \E signature \in SignatureArg(sender, taskId, level, ipfsHash) :
                respondToKYCTask(sender, taskId, level, ipfsHash, signature)
                    /\ UNCHANGED others
    \/ \E sender \in Sender, caller \in CallerArg :
            addAuthorizedCaller(sender, caller) /\ UNCHANGED others
    \/ \E sender \in Sender, caller \in CallerArg :
            removeAuthorizedCaller(sender, caller) /\ UNCHANGED others
    \/ \E sender \in Sender, user \in Address :
            revokeKYC(sender, user) /\ UNCHANGED others
    \/ \E sender \in Sender, e \in ExpiryArg, v \in ValidityArg :
            setConfig(sender, e, v) /\ UNCHANGED others
    \/ blockNumber < BlocksPerRun /\ MineBlock /\ UNCHANGED others
    \/ \E operator \in Sender : registerOperator(operator) /\ UNCHANGED others
    \/ \E operator \in Sender : deregisterOperator(operator) /\ UNCHANGED others

Spec == Init /\ [][Next]_vars

\* ------------------------------------------------- several tasks in one run
\* The same contract with MaxTasks tasks in a run, in a narrower environment:
\* the operator set is fixed, tasks are created for real levels, every
\* response carries its sender's own signature of it, and the owner's
\* setConfig changes the expiry threshold and keeps the validity period.

\* the operators registered before the run
RunOperators == {NumAddr}

InitManyTasks ==
    /\ initialize
    /\ operatorRegistered = RunOperators
    /\ blockNumber = 1
    /\ blockTimestamp = 1
    /\ NotStarted
    /\ projectDeployed
    /\ serviceNotStarted
    /\ responderNotRun

NextManyTasks ==
    \/ \E sender \in Sender, user \in Sender, requestId \in RequestIdArg :
            createKYCTask(sender, user, MaxLevelArg, requestId) /\ UNCHANGED others
    \/ \E sender \in Sender : requestKYC(sender, BASIC) /\ UNCHANGED others
    \/ \E sender \in Sender, taskId \in 1 .. MaxTasks, level \in {BASIC, MaxLevelArg},
           ipfsHash \in IpfsArg :
            respondToKYCTask(sender, taskId, level, ipfsHash,
                             signResponse(sender, taskId, tasks[taskId].user, level,
                                          ipfsHash, This))
                /\ UNCHANGED others
    \/ \E caller \in CallerArg : addAuthorizedCaller(owner, caller) /\ UNCHANGED others
    \/ \E caller \in CallerArg : removeAuthorizedCaller(owner, caller) /\ UNCHANGED others
    \/ \E user \in Sender : revokeKYC(owner, user) /\ UNCHANGED others
    \/ \E e \in ExpiryArg : setConfig(owner, e, kycValidityPeriod) /\ UNCHANGED others
    \/ blockNumber < BlocksPerRun /\ MineBlock /\ UNCHANGED others

SpecManyTasks == InitManyTasks /\ [][NextManyTasks]_vars

\* ------------------------------------------------- configuration in one run
\* The same contract with the owner changing the configuration while tasks
\* are pending and results are stored: the thresholds setConfig is given go up
\* to type(uint32).max, and blocks are mined up to MaxBlock.

\* _taskExpiryBlocks of setConfig: a uint32
ConfigExpiryArg == {0, 1, BlockUint32Max}

\* _kycValidityPeriod of setConfig, in seconds
ConfigValidityArg == {0, 2, TimeUint256Max}

InitConfig ==
    /\ initialize
    /\ operatorRegistered = RunOperators
    /\ blockNumber = 1
    /\ blockTimestamp = 1
    /\ NotStarted
    /\ projectDeployed
    /\ serviceNotStarted
    /\ responderNotRun

NextConfig ==
    \/ \E user \in Sender, requestId \in RequestIdArg :
            createKYCTask(owner, user, BASIC, requestId) /\ UNCHANGED others
    \/ \E sender \in RunOperators, taskId \in 1 .. MaxTasks, level \in {MaxLevelArg},
           ipfsHash \in IpfsArg :
            respondToKYCTask(sender, taskId, level, ipfsHash,
                             signResponse(sender, taskId, tasks[taskId].user, level,
                                          ipfsHash, This))
                /\ UNCHANGED others
    \/ \E e \in ConfigExpiryArg, v \in ConfigValidityArg :
            setConfig(owner, e, v) /\ UNCHANGED others
    \/ MineBlock /\ UNCHANGED others

SpecConfig == InitConfig /\ [][NextConfig]_vars


\* ------------------------------------------------- the KYC operator service
\* main, monitorTasks, the KYCTaskCreated listener and processTask of the
\* operator service, run against the contract.  The service is one
\* JavaScript thread: a step is the code a callback runs from the resolution
\* (or rejection) of one await to the next await that reads or writes the
\* ledger; verifyKYC, uploadToIPFS and signResponse read no shared state and
\* are part of the step that getTask's resolution starts.

\* the wallet of OPERATOR_PRIVATE_KEY, and another registered operator
OperatorWallet == NumAddr
OtherOperator == owner

\* provider.getBlockNumber(): the latest mined block.  The transactions made
\* at blockNumber are in the block being built, mined by MineBlock.
getBlockNumber == blockNumber - 1

\* KYCTaskCreated has been emitted for task t (every creation emits it)
Emitted(t) == taskHashes[t] # <<>>

\* the tasks whose KYCTaskCreated is in the blocks fromBlock .. toBlock
CreatedIn(fromBlock, toBlock) ==
    { t \in TaskId : /\ Emitted(t)
                     /\ fromBlock <= tasks[t].taskCreatedBlock
                     /\ tasks[t].taskCreatedBlock <= toBlock }

RECURSIVE InLogOrder(_)
InLogOrder(S) ==
    IF S = {} THEN <<>>
    ELSE LET first == CHOOSE t \in S : \A u \in S : t <= u
         IN  <<first>> \o InLogOrder(S \ {first})

\* serviceManager.queryFilter(filter, fromBlock, toBlock): the events in log
\* order, which is the order of the task IDs
queryFilter(fromBlock, toBlock) == InLogOrder(CreatedIn(fromBlock, toBlock))

Min(a, b) == IF a <= b THEN a ELSE b

\* what processTask's steps before the submission come to: verifyKYC approves
\* (the mock always does) or declines, uploadToIPFS or signResponse throws
DecisionOutcome == {"approved", "declined", "uploadFailed", "signFailed"}

\* a processTask that goes on to the submission whatever verifyKYC returned
SubmitsAnyway(outcome) == outcome \notin {"uploadFailed", "signFailed"}

\* processTask reaches the submission (542) only when result.verified holds
\* (525) and neither uploadToIPFS nor signResponse threw
Submits(outcome) == outcome = "approved"

\* the line processTask logs at 553 or 556 before it returns
Logged(outcome) == IF outcome = "approved" THEN Quiet ELSE Log(outcome, 0, FALSE)

\* the mock verifyKYC approves at the requested level
verifyKYC(task) == task.requiredLevel

\* the mock uploadToIPFS: the hash of the proof data
uploadToIPFS(task) == CHOOSE h \in IpfsArg : TRUE

Counted(n) == Min(n + 1, 2)

\* a loop that skips no event, whatever processedTasks holds
NotProcessedSkipsNothing(events, processed) == events

\* the events of a batch that the loop of lines 590-608 does not skip
RECURSIVE NotProcessed(_, _)
NotProcessed(events, processed) ==
    IF events = <<>> THEN <<>>
    ELSE IF Head(events) \in processed THEN NotProcessed(Tail(events), processed)
    ELSE events

\* The for loop of monitorTasks run from the events left up to its next
\* await: processed tasks are skipped (594); the first other task is added to
\* processedTasks (595) and getTask is called (598); after the last event the
\* cursor is set (610) and the tick ends.
LoopOn(s, events) ==
    LET left == NotProcessed(events, processedTasks)
    IN  IF left = <<>>
        THEN /\ lastCheckedBlock' = ticks[s].toBlock
             /\ ticks' = [ticks EXCEPT ![s] = IdleTick]
             /\ UNCHANGED <<processedTasks, handed>>
        ELSE /\ processedTasks' = processedTasks \cup {Head(left)}
             /\ handed' = [handed EXCEPT ![Head(left)] = Counted(handed[Head(left)])]
             /\ ticks' = [ticks EXCEPT ![s].pc = "getTask", ![s].taskId = Head(left),
                                       ![s].task = EmptyTask, ![s].events = Tail(left)]
             /\ UNCHANGED lastCheckedBlock

\* a rejection that is not caught: the callback of tick s never comes back
PollFailedNeverReturns(s) ==
    /\ ticks' = [ticks EXCEPT ![s].pc = "dead"]
    /\ watcherLog' = Log("pollFailed", ticks[s].fromBlock, ticks[s].overlapped)
    /\ UNCHANGED <<lastCheckedBlock, processedTasks, handed>>

\* a catch block that moves the cursor past the range of the failed tick
PollFailedAdvances(s) ==
    /\ ticks' = [ticks EXCEPT ![s] = IdleTick]
    /\ watcherLog' = Log("pollFailed", ticks[s].fromBlock, ticks[s].overlapped)
    /\ lastCheckedBlock' = ticks[s].toBlock
    /\ UNCHANGED <<processedTasks, handed>>

\* the catch of line 612 for a rejected queryFilter or getTask: the error is
\* logged and the callback of tick s ends; line 610 is not reached
PollFailed(s) ==
    /\ ticks' = [ticks EXCEPT ![s] = IdleTick]
    /\ watcherLog' = Log("pollFailed", ticks[s].fromBlock, ticks[s].overlapped)
    /\ UNCHANGED <<lastCheckedBlock, processedTasks, handed>>

\* a startup that leaves the cursor at the first block of the chain
mainScansFromGenesis ==
    /\ ~running
    /\ lifetimes < MaxLifetimes
    /\ running' = TRUE
    /\ lastCheckedBlock' = 0
    /\ startupBlock' = getBlockNumber
    /\ processedTasks' = {}
    /\ lifetimes' = lifetimes + 1
    /\ watcherLog' = Quiet
    /\ UNCHANGED <<ticks, listeners, queried, handed, submissions>>
    /\ UNCHANGED <<ledger, chain, operatorRegistered, lastCall>>

\* main: startup (lines 619-673), monitorTasks's first read (line 572) and the
\* registration of the listener (line 677)
main ==
    /\ ~running
    /\ lifetimes < MaxLifetimes
    /\ running' = TRUE
    /\ lastCheckedBlock' = getBlockNumber
    /\ startupBlock' = getBlockNumber
    /\ processedTasks' = {}
    /\ lifetimes' = lifetimes + 1
    /\ watcherLog' = Quiet
    /\ UNCHANGED <<ticks, listeners, queried, handed, submissions>>
    /\ UNCHANGED <<ledger, chain, operatorRegistered, lastCall>>

\* SIGINT, or the process killed: every call in flight is gone with the
\* process's memory
shutdown ==
    /\ running
    /\ running' = FALSE
    /\ lastCheckedBlock' = 0
    /\ processedTasks' = {}
    /\ ticks' = [s \in 1 .. MaxTicks |-> IdleTick]
    /\ listeners' = [t \in TaskId |-> NoCall]
    /\ startupBlock' = 0
    /\ queried' = {}
    /\ handed' = [t \in TaskId |-> 0]
    /\ submissions' = [t \in TaskId |-> 0]
    /\ watcherLog' = Quiet
    /\ UNCHANGED lifetimes
    /\ UNCHANGED <<ledger, chain, operatorRegistered, lastCall>>

\* setInterval fires (line 578) and getBlockNumber (line 580) resolves or
\* rejects (caught at 612); on a new block the range is computed from the
\* cursor (582-584) and the query is sent
TickRead(s, ok) ==
    /\ running
    /\ ticks[s].pc = "idle"
    /\ \A r \in 1 .. s - 1 : ticks[r].pc # "idle"
    /\ IF ~ok
       THEN /\ watcherLog' = Log("pollFailed", lastCheckedBlock + 1, \E r \in 1 .. MaxTicks : ticks[r].pc # "idle")
            /\ UNCHANGED ticks
       ELSE LET currentBlock == getBlockNumber
                fromBlock == lastCheckedBlock + 1
                toBlock == Min(fromBlock + BLOCK_RANGE, currentBlock)
            IN  IF currentBlock > lastCheckedBlock
                THEN /\ ticks' = [r \in 1 .. MaxTicks |->
                                  IF r = s
                                  THEN [IdleTick EXCEPT
                                          !.pc = "query", !.fromBlock = fromBlock,
                                          !.toBlock = toBlock,
                                          !.overlapped = \E q \in 1 .. MaxTicks :
                                                             ticks[q].pc # "idle"]
                                  ELSE IF ticks[r].pc = "idle" THEN ticks[r]
                                  ELSE [ticks[r] EXCEPT !.overlapped = TRUE]]
                     /\ watcherLog' = Quiet
                ELSE /\ watcherLog' = Quiet
                     /\ UNCHANGED ticks
    /\ UNCHANGED <<running, lastCheckedBlock, processedTasks, listeners, startupBlock,
                   queried, handed, submissions, lifetimes>>
    /\ UNCHANGED <<ledger, chain, operatorRegistered, lastCall>>

\* queryFilter (line 588) resolves with the events and the loop starts, or
\* it rejects (caught at 612)
TickQuery(s, ok) ==
    /\ running
    /\ ticks[s].pc = "query"
    /\ IF ok
       THEN /\ LoopOn(s, queryFilter(ticks[s].fromBlock, ticks[s].toBlock))
            /\ queried' = queried \cup (ticks[s].fromBlock .. ticks[s].toBlock)
            /\ watcherLog' = Quiet
       ELSE /\ PollFailed(s)
            /\ UNCHANGED queried
    /\ UNCHANGED <<running, listeners, startupBlock, submissions, lifetimes>>
    /\ UNCHANGED <<ledger, chain, operatorRegistered, lastCall>>

\* getTask (line 598) resolves with the task record and processTask runs up
\* to its submission (521-537), or to its end when the task is declined or a
\* step throws (552-557), after which the loop goes on; or getTask rejects,
\* which leaves the loop and the tick through the catch of line 612
TickGetTask(s, ok, outcome) ==
    /\ running
    /\ ticks[s].pc = "getTask"
    /\ IF ~ok
       THEN PollFailed(s)
       ELSE /\ watcherLog' = Logged(outcome)
            /\ IF Submits(outcome)
               THEN /\ ticks' = [ticks EXCEPT ![s].pc = "submit",
                                              ![s].task = getTask(ticks[s].taskId)]
                    /\ UNCHANGED <<lastCheckedBlock, processedTasks, handed>>
               ELSE LoopOn(s, ticks[s].events)
    /\ UNCHANGED <<running, listeners, startupBlock, queried, submissions, lifetimes>>
    /\ UNCHANGED <<ledger, chain, operatorRegistered, lastCall>>

\* processTask, lines 542-549: the response is submitted and the contract
\* runs respondToKYCTask, or the transaction never reaches the ledger; a
\* revert and a network error are both caught at line 555
processTaskSubmit(taskId, task, sent) ==
    /\ submissions' = [submissions EXCEPT ![taskId] = Counted(submissions[taskId])]
    /\ IF sent
       THEN respondToKYCTask(OperatorWallet, taskId, verifyKYC(task), uploadToIPFS(task),
                             signResponse(OperatorWallet, taskId, task.user, verifyKYC(task),
                                          uploadToIPFS(task), This))
       ELSE UNCHANGED <<ledger, chain, operatorRegistered, lastCall>>

TickSubmit(s, sent) ==
    /\ running
    /\ ticks[s].pc = "submit"
    /\ processTaskSubmit(ticks[s].taskId, ticks[s].task, sent)
    /\ LoopOn(s, ticks[s].events)
    /\ watcherLog' = Quiet
    /\ UNCHANGED <<running, listeners, startupBlock, queried, lifetimes>>

\* the listener of line 677 is called with the event of task t, emitted in a
\* block mined after the startup: it returns (680-682) or adds the task and
\* calls getTask (684-685)
ListenerCalled(t) ==
    /\ running
    /\ listeners[t].pc = "none"
    /\ Emitted(t)
    /\ tasks[t].taskCreatedBlock > startupBlock
    /\ tasks[t].taskCreatedBlock <= getBlockNumber
    /\ IF t \in processedTasks
       THEN /\ listeners' = [listeners EXCEPT ![t].pc = "done"]
            /\ UNCHANGED <<processedTasks, handed>>
       ELSE /\ processedTasks' = processedTasks \cup {t}
            /\ handed' = [handed EXCEPT ![t] = Counted(handed[t])]
            /\ listeners' = [listeners EXCEPT ![t].pc = "getTask"]
    /\ watcherLog' = Quiet
    /\ UNCHANGED <<running, lastCheckedBlock, ticks, startupBlock, queried, submissions,
                   lifetimes>>
    /\ UNCHANGED <<ledger, chain, operatorRegistered, lastCall>>

\* getTask (line 685) resolves and processTask runs up to its submission or
\* to its end, or getTask rejects and the listener's call ends
ListenerGetTask(t, ok, outcome) ==
    /\ running
    /\ listeners[t].pc = "getTask"
    /\ IF ~ok
       THEN /\ listeners' = [listeners EXCEPT ![t].pc = "done"]
            /\ watcherLog' = Quiet
       ELSE /\ watcherLog' = Logged(outcome)
            /\ IF Submits(outcome)
               THEN listeners' = [listeners EXCEPT ![t].pc = "submit", ![t].task = getTask(t)]
               ELSE listeners' = [listeners EXCEPT ![t].pc = "done"]
    /\ UNCHANGED <<running, lastCheckedBlock, processedTasks, ticks, startupBlock,
                   queried, handed, submissions, lifetimes>>
    /\ UNCHANGED <<ledger, chain, operatorRegistered, lastCall>>

ListenerSubmit(t, sent) ==
    /\ running
    /\ listeners[t].pc = "submit"
    /\ processTaskSubmit(t, listeners[t].task, sent)
    /\ listeners' = [listeners EXCEPT ![t].pc = "done", ![t].task = EmptyTask]
    /\ watcherLog' = Quiet
    /\ UNCHANGED <<running, lastCheckedBlock, processedTasks, ticks, startupBlock,
                   queried, handed, lifetimes>>

\* the contract initialized, the service's wallet and another operator
\* registered, the service not started
InitWatcher ==
    /\ initialize
    /\ operatorRegistered = {OperatorWallet, OtherOperator}
    /\ blockNumber = 1
    /\ blockTimestamp = 1
    /\ NotStarted
    /\ projectDeployed
    /\ serviceNotStarted
    /\ responderNotRun

NextWatcher ==
    \/ \E requestId \in RequestIdArg :
            createKYCTask(owner, owner, MaxLevelArg, requestId) /\ UNCHANGED others
    \/ \E taskId \in 1 .. MaxTasks, ipfsHash \in IpfsArg :
            respondToKYCTask(OtherOperator, taskId, BASIC, ipfsHash,
                             signResponse(OtherOperator, taskId, tasks[taskId].user, BASIC,
                                          ipfsHash, This))
                /\ UNCHANGED others
    \/ MineBlock /\ UNCHANGED others
    \/ main /\ UNCHANGED <<projectLedger, categories, manual>>
    \/ shutdown /\ UNCHANGED <<projectLedger, categories, manual>>
    \/ \E s \in 1 .. MaxTicks, ok \in BOOLEAN :
            TickRead(s, ok) /\ UNCHANGED <<projectLedger, categories, manual>>
    \/ \E s \in 1 .. MaxTicks, ok \in BOOLEAN :
            TickQuery(s, ok) /\ UNCHANGED <<projectLedger, categories, manual>>
    \/ \E s \in 1 .. MaxTicks, ok \in BOOLEAN, outcome \in DecisionOutcome :
            TickGetTask(s, ok, outcome) /\ UNCHANGED <<projectLedger, categories, manual>>
    \/ \E s \in 1 .. MaxTicks, sent \in BOOLEAN :
            TickSubmit(s, sent) /\ UNCHANGED <<projectLedger, categories, manual>>
    \/ \E t \in TaskId :
            ListenerCalled(t) /\ UNCHANGED <<projectLedger, categories, manual>>
    \/ \E t \in TaskId, ok \in BOOLEAN, outcome \in DecisionOutcome :
            ListenerGetTask(t, ok, outcome) /\ UNCHANGED <<projectLedger, categories, manual>>
    \/ \E t \in TaskId, sent \in BOOLEAN :
            ListenerSubmit(t, sent) /\ UNCHANGED <<projectLedger, categories, manual>>

allVars == <<vars, watcher, projectLedger, categories, manual>>

SpecWatcher == InitWatcher /\ [][NextWatcher]_allVars

\* ------------------------------------------- the project verification flow
\* The project verification contract is known by its interface and by the
\* callers and tests that drive it: a submission is created PENDING under
\* the next task number, and a response is validated as the protocol
\* prescribes (existence, pending, expiry, signature, operator) before the
\* result is stored under the task.

\* the expiry threshold of project tasks
ProjectExpiryBlocks == InitialTaskExpiryBlocks

\* verifyProject's quality scores, 85 + floor(random * 16): the low end of the range
RandomQualityScore == {85}
\* quality scores sent in responses: verifyProject's and the 92 of the scripts
QualityScore == RandomQualityScore \cup {92}
\* verified credits sent in responses: 90% and 95% of the estimate
VerifiedCredits == {(EstimatedCredits * 90) \div 100, (EstimatedCredits * 95) \div 100}
\* project names callers submit
ProjectName == {1}
\* the verification URIs: the one processProjectTask derives from a
\* project's name and the one the scripts derive from the task ID
VerificationUri == {<<"ipfs://Qm", 1>>, <<"ipfs://QmVerification", 1>>,
                    <<"ipfs://QmVerification", 2>>}
\* the result fields sent by hand: the scripts'
PayloadArg ==
    { [qualityScore |-> 92, verifiedCredits |-> (EstimatedCredits * 95) \div 100,
       verificationUri |-> <<"ipfs://QmVerification", 1>>] }

\* mutant: the verification URI is signed as well
signProjectResponseWithUri(wallet, taskId, projectOwner, status, qualityScore, verifiedCredits, verificationUri, contractAddress) ==
    signMessage(wallet,
                solidityPackedKeccak256(<<taskId, projectOwner, status, qualityScore,
                                          verifiedCredits, verificationUri, contractAddress>>))

\* the signature processProjectTask, respondToProject and the end-to-end
\* tests build: the wallet's signature over the packed (uint32 taskId,
\* address owner, uint8 status, uint8 qualityScore, uint256 verifiedCredits,
\* address contract); the verification URI is computed but not packed
signProjectResponse(wallet, taskId, projectOwner, status, qualityScore, verifiedCredits, verificationUri, contractAddress) ==
    signMessage(wallet,
                solidityPackedKeccak256(<<taskId, projectOwner, status, qualityScore,
                                          verifiedCredits, contractAddress>>))

\* the message the contract recomputes for a response
ProjectMessageHash(taskId, status, qualityScore, verifiedCredits) ==
    keccak256(<<taskId, projectSubmissions[taskId].owner, status, qualityScore,
                verifiedCredits, CONTRACT_ADDRESS>>)

\* the result a valid response stores
NewVerification(sender, status, qualityScore, verifiedCredits, verificationUri) ==
    [status |-> status, qualityScore |-> qualityScore, verifiedCredits |-> verifiedCredits,
     verifiedAt |-> blockTimestamp, verifiedBy |-> sender,
     verificationUri |-> verificationUri, canMint |-> TRUE]

ProjectOutcome(err, newSubmissions, newResults) ==
    [err |-> err, projectSubmissions |-> newSubmissions, verificationResults |-> newResults]

\* respondToTask(taskId, status, qualityScore, verifiedCredits,
\* verificationUri, signature) sent by sender
respondToTaskOutcome(sender, taskId, status, qualityScore, verifiedCredits, verificationUri, signature) ==
    LET submission == projectSubmissions[taskId]
        ethSignedHash ==
            toEthSignedMessageHash(ProjectMessageHash(taskId, status, qualityScore,
                                                      verifiedCredits))
    IN  IF submission.owner = ZeroAddress
        THEN ProjectOutcome("TaskNotFound", projectSubmissions, verificationResults)
        ELSE IF submission.status # PENDING
        THEN ProjectOutcome("TaskNotPending", projectSubmissions, verificationResults)
        ELSE IF blockNumber - submission.submittedBlock > ProjectExpiryBlocks
        THEN ProjectOutcome("TaskExpired",
                            [projectSubmissions EXCEPT ![taskId].status = EXPIRED],
                            verificationResults)
        ELSE IF ~signature.wellFormed \/ recover(ethSignedHash, signature) # sender
        THEN ProjectOutcome("InvalidSignature", projectSubmissions, verificationResults)
        ELSE IF sender \notin operators
        THEN ProjectOutcome("NotOperator", projectSubmissions, verificationResults)
        ELSE ProjectOutcome("OK",
                            [projectSubmissions EXCEPT ![taskId].status = COMPLETED],
                            [verificationResults EXCEPT ![taskId] =
                                NewVerification(sender, status, qualityScore, verifiedCredits,
                                                verificationUri)])

respondToTask(sender, taskId, status, qualityScore, verifiedCredits, verificationUri, signature) ==
    LET out == respondToTaskOutcome(sender, taskId, status, qualityScore, verifiedCredits,
                                    verificationUri, signature)
    IN  /\ projectSubmissions' = out.projectSubmissions
        /\ verificationResults' = out.verificationResults
        /\ lastProjectCall' =
               ProjectCall("respondToTask", sender, taskId, out.err)
        /\ UNCHANGED <<latestTaskNum, operators>>

\* submitProject(name, ..., estimatedCredits, documentationUri) sent by
\* sender: the submission is stored PENDING under the next task number
submitProject(sender, name, estimatedCredits) ==
    /\ latestTaskNum < MaxProjects
    /\ latestTaskNum' = latestTaskNum + 1
    /\ projectSubmissions' =
           [projectSubmissions EXCEPT ![latestTaskNum + 1] =
                [owner |-> sender, name |-> name, estimatedCredits |-> estimatedCredits,
                 submittedBlock |-> blockNumber, status |-> PENDING]]
    /\ lastProjectCall' = ProjectCall("submitProject", sender, latestTaskNum + 1, "OK")
    /\ UNCHANGED <<verificationResults, operators>>

\* canMintTokens(taskId)
canMintTokens(taskId) == verificationResults[taskId].canMint

\* the operators mapping changes: an address is registered or removed
setOperator(operator, registered) ==
    /\ operators' = IF registered THEN operators \cup {operator} ELSE operators \ {operator}
    /\ lastProjectCall' = ProjectCall("setOperator", operator, 0, "OK")
    /\ UNCHANGED <<latestTaskNum, projectSubmissions, verificationResults>>

\* verifyProject(submission): always approved at STANDARD, with a quality
\* score of 85..100 and 90..100% of the estimated credits (the low ends)
verifyProject(submission) ==
    { [verified |-> TRUE, status |-> STANDARD, qualityScore |-> q, verifiedCredits |-> c] :
        q \in RandomQualityScore,
        c \in {(submission.estimatedCredits * 90) \div 100} }

\* processProjectTask(contract, wallet, taskId, submission) with the
\* submission getSubmission returned: the result is verified, signed and
\* submitted
processProjectTask(wallet, taskId) ==
    LET submission == projectSubmissions[taskId]
        verificationUri == <<"ipfs://Qm", submission.name>>
    IN  \E result \in verifyProject(submission) :
            /\ result.verified
            /\ respondToTask(wallet, taskId, result.status, result.qualityScore,
                             result.verifiedCredits, verificationUri,
                             signProjectResponse(wallet, taskId, submission.owner,
                                                 result.status, result.qualityScore,
                                                 result.verifiedCredits, verificationUri,
                                                 CONTRACT_ADDRESS))

\* step 2 of the end-to-end test: STANDARD, quality
\* score 92, 95% of the estimated credits, signed by the test's wallet
e2eRespond(wallet, taskId) ==
    LET submission == projectSubmissions[taskId]
        verifiedCredits == (submission.estimatedCredits * 95) \div 100
        verificationUri == <<"ipfs://QmVerification", taskId>>
    IN  respondToTask(wallet, taskId, STANDARD, 92, verifiedCredits, verificationUri,
                      signProjectResponse(wallet, taskId, submission.owner, STANDARD, 92,
                                          verifiedCredits, verificationUri,
                                          CONTRACT_ADDRESS))

\* the signatures a sender attaches to a response: its own over the values
\* sent, its own over another status, another wallet's, one made for
\* another deployment, and bytes that are no signature
ProjectSignatureArg(sender, taskId, status, qualityScore, verifiedCredits, verificationUri) ==
    LET projectOwner == projectSubmissions[taskId].owner
    IN  { signProjectResponse(sender, taskId, projectOwner, status, qualityScore,
                              verifiedCredits, verificationUri, CONTRACT_ADDRESS),
          signProjectResponse(sender, taskId, projectOwner, BASIC, qualityScore,
                              verifiedCredits, verificationUri, CONTRACT_ADDRESS),
          signProjectResponse(owner, taskId, projectOwner, status, qualityScore,
                              verifiedCredits, verificationUri, CONTRACT_ADDRESS),
          signProjectResponse(sender, taskId, projectOwner, status, qualityScore,
                              verifiedCredits, verificationUri, OtherLedger),
          MalformedSignature }

\* statuses operators respond with
StatusArg == BASIC .. PREMIUM

InitProject ==
    /\ initialize
    /\ operatorRegistered = {}
    /\ blockNumber = 1
    /\ blockTimestamp = 1
    /\ NotStarted
    /\ projectDeployed
    /\ serviceNotStarted
    /\ responderNotRun

NextProject ==
    \/ \E sender \in Sender, name \in ProjectName :
            /\ submitProject(sender, name, EstimatedCredits)
            /\ UNCHANGED <<vars, watcher, categories, manual>>
    \/ \E sender \in Sender, taskId \in ProjectId, status \in StatusArg, payload \in PayloadArg :
            \E signature \in ProjectSignatureArg(sender, taskId, status, payload.qualityScore,
                                                 payload.verifiedCredits,
                                                 payload.verificationUri) :
                /\ respondToTask(sender, taskId, status, payload.qualityScore,
                                 payload.verifiedCredits, payload.verificationUri, signature)
                /\ UNCHANGED <<vars, watcher, categories, manual>>
    \/ \E wallet \in Sender, taskId \in 1 .. MaxProjects :
            processProjectTask(wallet, taskId) /\ UNCHANGED <<vars, watcher, categories, manual>>
    \/ \E wallet \in Sender, taskId \in 1 .. MaxProjects :
            e2eRespond(wallet, taskId) /\ UNCHANGED <<vars, watcher, categories, manual>>
    \/ \E operator \in Sender, registered \in BOOLEAN :
            setOperator(operator, registered) /\ UNCHANGED <<vars, watcher, categories, manual>>
    \/ blockNumber < BlocksPerRun /\ MineBlock /\ UNCHANGED others

SpecProject == InitProject /\ [][NextProject]_allVars

\* ------------------------------------------------- the manual responder
\* respondToProject.ts: main as the steps between its awaits, run by hand
\* against the project contract while others use the contract too.

\* process.exit(code), or main().catch after a rejected read: nothing more runs
ResponderExit(code) == [responder EXCEPT !.pc = "exited", !.exitCode = code]

\* lines 46-62: the task id and the key are read and the contract object is
\* built; without OPERATOR_PRIVATE_KEY the process exits with 1
respondToProjectStart(wallet, taskId, hasKey) ==
    /\ responder.pc \in {"off", "exited", "done"}
    /\ responder.runs < ResponderRuns
    /\ LET run == [ResponderOff EXCEPT !.runs = responder.runs + 1]
       IN  responder' = IF hasKey
                        THEN [run EXCEPT !.pc = "operators", !.wallet = wallet, !.taskId = taskId]
                        ELSE [run EXCEPT !.pc = "exited", !.exitCode = 1]
    /\ UNCHANGED projectLedger

\* lines 65-70: operators(wallet.address) resolves (or rejects)
respondToProjectOperators(ok) ==
    /\ responder.pc = "operators"
    /\ responder' = IF ~ok \/ responder.wallet \notin operators
                    THEN ResponderExit(1)
                    ELSE [responder EXCEPT !.pc = "getSubmission"]
    /\ UNCHANGED projectLedger

\* mutant: the status check of lines 83-90 is left out
respondToProjectGetSubmissionAnyStatus(ok) ==
    LET submission == projectSubmissions[responder.taskId]
    IN  /\ responder.pc = "getSubmission"
        /\ responder' =
             IF ~ok \/ submission.owner = ZeroAddress THEN ResponderExit(1)
             ELSE [responder EXCEPT !.pc = "submit", !.owner = submission.owner,
                                    !.estimatedCredits = submission.estimatedCredits]
        /\ UNCHANGED projectLedger

\* lines 73-107: getSubmission(taskId) resolves (or rejects); a missing task
\* exits with 1, a task that is not PENDING goes on to print its result, and
\* for a PENDING one the response is computed and signed
respondToProjectGetSubmission(ok) ==
    LET submission == projectSubmissions[responder.taskId]
    IN  /\ responder.pc = "getSubmission"
        /\ responder' =
             IF ~ok \/ submission.owner = ZeroAddress THEN ResponderExit(1)
             ELSE IF submission.status # PENDING THEN [responder EXCEPT !.pc = "getResult"]
             ELSE [responder EXCEPT !.pc = "submit", !.owner = submission.owner,
                                    !.estimatedCredits = submission.estimatedCredits]
        /\ UNCHANGED projectLedger

\* lines 85-88: getVerificationResult(taskId) resolves (or rejects) and the
\* process exits with 0 (1 after a rejected read)
respondToProjectGetResult(ok) ==
    /\ responder.pc = "getResult"
    /\ responder' = ResponderExit(IF ok THEN 0 ELSE 1)
    /\ UNCHANGED projectLedger

\* lines 111-138: respondToTask is sent with STANDARD, quality score 90, 95%
\* of the estimated credits read before, and the signature of lines 103-107;
\* a rejected transaction (or one that could not be sent) is caught and the
\* process exits with 1
respondToProjectSubmit(sent) ==
    LET taskId == responder.taskId
        verifiedCredits == (responder.estimatedCredits * 95) \div 100
        verificationUri == <<"ipfs://QmVerification", taskId>>
        signature == signProjectResponse(responder.wallet, taskId, responder.owner, STANDARD, 90, verifiedCredits, verificationUri, CONTRACT_ADDRESS)
        out == respondToTaskOutcome(responder.wallet, taskId, STANDARD, 90, verifiedCredits, verificationUri, signature)
    IN  /\ responder.pc = "submit"
        /\ IF sent
           THEN /\ respondToTask(responder.wallet, taskId, STANDARD, 90, verifiedCredits, verificationUri, signature)
                /\ responder' = IF out.err = "OK"
                                THEN [responder EXCEPT !.pc = "done", !.submitted = TRUE]
                                ELSE [ResponderExit(1) EXCEPT !.submitted = TRUE]
           ELSE /\ responder' = ResponderExit(1)
                /\ UNCHANGED projectLedger

NextResponder ==
    \/ \E sender \in Sender, name \in ProjectName :
            /\ submitProject(sender, name, EstimatedCredits)
            /\ UNCHANGED <<vars, watcher, categories, manual>>
    \/ \E wallet \in Sender, taskId \in 1 .. MaxProjects :
            e2eRespond(wallet, taskId) /\ UNCHANGED <<vars, watcher, categories, manual>>
    \/ \E operator \in Sender, registered \in BOOLEAN :
            setOperator(operator, registered) /\ UNCHANGED <<vars, watcher, categories, manual>>
    \/ blockNumber < BlocksPerRun /\ MineBlock /\ UNCHANGED others
    \/ \E wallet \in Sender, taskId \in 1 .. MaxProjects, hasKey \in BOOLEAN :
            respondToProjectStart(wallet, taskId, hasKey) /\ UNCHANGED <<vars, watcher, categories>>
    \/ \E ok \in BOOLEAN : respondToProjectOperators(ok) /\ UNCHANGED <<vars, watcher, categories>>
    \/ \E ok \in BOOLEAN : respondToProjectGetSubmission(ok) /\ UNCHANGED <<vars, watcher, categories>>
    \/ \E ok \in BOOLEAN : respondToProjectGetResult(ok) /\ UNCHANGED <<vars, watcher, categories>>
    \/ \E sent \in BOOLEAN : respondToProjectSubmit(sent) /\ UNCHANGED <<vars, watcher, categories>>

SpecResponder == InitProject /\ [][NextResponder]_allVars

\* ------------------------------------------ the service for both categories
\* main starts monitorKYC, then monitorProjects; each reads the block number
\* once and sets an interval whose callback polls its own contract.  A step
\* is the code between two awaits.  The contracts are seen through their
\* creation events only.

\* mutant: the keys of the shared set carry no category
keyWithoutCategory(c, taskId) == <<"task-", taskId>>

\* `kyc-${taskId}` / `project-${taskId}`
key(c, taskId) == <<c, "-", taskId>>

\* the creation events of category c in blocks fromBlock .. toBlock, in log order
categoryQueryFilter(c, fromBlock, toBlock) ==
    InLogOrder({ t \in CategoryTaskId : /\ categoryEvents[c][t] # 0
                                        /\ fromBlock <= categoryEvents[c][t]
                                        /\ categoryEvents[c][t] <= toBlock })

\* a task of category c is created in the current block
categoryTaskCreated(c, t) ==
    /\ categoryEvents[c][t] = 0
    /\ \A u \in CategoryTaskId : u < t => categoryEvents[c][u] # 0
    /\ categoryEvents' = [categoryEvents EXCEPT ![c][t] = blockNumber]
    /\ UNCHANGED <<mainPc, started, lastBlock, processedTaskKeys, monitors, serviceLog>>

\* the process is alive
Alive == mainPc \in {"monitorKYC", "monitorProjects", "running"}

\* process.exit: the intervals, the closures and the set are gone
Exited(c, step) ==
    /\ mainPc' = "exited"
    /\ started' = {}
    /\ lastBlock' = [d \in Category |-> 0]
    /\ processedTaskKeys' = {}
    /\ monitors' = [d \in Category |-> [s \in 1 .. MonitorTicks |-> IdleMonitor]]
    /\ serviceLog' = ServiceStep(c, step)
    /\ UNCHANGED categoryEvents

\* main runs up to the first await of monitorKYC (line 216)
serviceMain ==
    /\ mainPc = "off"
    /\ mainPc' = "monitorKYC"
    /\ serviceLog' = ServiceStep("none", "main")
    /\ UNCHANGED <<started, lastBlock, processedTaskKeys, monitors, categoryEvents>>

\* the startup function of a category and what main does after it
StartupOf(c) == IF c = "kyc" THEN "monitorKYC" ELSE "monitorProjects"
AfterStartupOf(c) == IF c = "kyc" THEN "monitorProjects" ELSE "running"

\* mutant: a rejected startup read leaves the service as it is
monitorStartupFailedIgnored(c) ==
    /\ serviceLog' = ServiceStep(c, "startupFailed")
    /\ UNCHANGED <<mainPc, started, lastBlock, processedTaskKeys, monitors, categoryEvents>>

\* the startup read of monitorKYC (216) or monitorProjects (259) rejects:
\* main rejects and main().catch exits the process (368-371)
monitorStartupFailed(c) == Exited(c, "startupFailed")

\* monitorKYC / monitorProjects up to their return: the startup read
\* resolves, lastBlock is set and the interval is set; or the read rejects
monitorStartup(c, ok) ==
    /\ mainPc = StartupOf(c)
    /\ IF ok
       THEN /\ lastBlock' = [lastBlock EXCEPT ![c] = getBlockNumber]
            /\ started' = started \cup {c}
            /\ mainPc' = AfterStartupOf(c)
            /\ serviceLog' = ServiceStep(c, "startup")
            /\ UNCHANGED <<processedTaskKeys, monitors, categoryEvents>>
       ELSE monitorStartupFailed(c)

\* Ctrl+C: the handler of 359-362 once main is past both startups, the
\* default action before
sigint ==
    /\ Alive
    /\ Exited("none", "sigint")

\* the loop of 227-242 / 270-293 from the events left up to its next await:
\* processed keys are skipped; the first new key is added and getTask /
\* getSubmission is called; at the end of the events lastBlock is set
monitorLoop(c, s, events) ==
    LET left == SelectSeq(events, LAMBDA t : key(c, t) \notin processedTaskKeys)
    IN  IF left = <<>>
        THEN /\ lastBlock' = [lastBlock EXCEPT ![c] = monitors[c][s].currentBlock]
             /\ monitors' = [monitors EXCEPT ![c][s] = IdleMonitor]
             /\ UNCHANGED processedTaskKeys
        ELSE /\ processedTaskKeys' = processedTaskKeys \cup {key(c, Head(left))}
             /\ monitors' = [monitors EXCEPT ![c][s].pc = "getTask", ![c][s].events = left]
             /\ UNCHANGED lastBlock

\* mutant: a callback starts only when no submission is in flight in
\* either category
monitorTickSerialized(c, s) ==
    /\ Alive
    /\ c \in started
    /\ monitors[c][s].pc = "idle"
    /\ \A d \in Category, r \in 1 .. MonitorTicks : monitors[d][r].pc # "submit"

\* the interval of category c fires: a callback starts in a free slot
monitorTick(c, s) ==
    /\ Alive
    /\ c \in started
    /\ monitors[c][s].pc = "idle"

\* the callback of category c up to the end of its block-number read
\* (221-222 / 264-265)
monitorRead(c, s, ok) ==
    /\ monitorTick(c, s)
    /\ IF ok /\ getBlockNumber > lastBlock[c]
       THEN /\ monitors' = [monitors EXCEPT ![c][s] =
                                [pc |-> "query", currentBlock |-> getBlockNumber,
                                 fromBlock |-> lastBlock[c] + 1, events |-> <<>>]]
            /\ serviceLog' = ServiceStep(c, "read")
       ELSE /\ monitors' = [monitors EXCEPT ![c][s] = IdleMonitor]
            /\ serviceLog' = ServiceStep(c, IF ok THEN "nothingNew" ELSE "readFailed")
    /\ UNCHANGED <<mainPc, started, lastBlock, processedTaskKeys, categoryEvents>>

\* queryFilter resolves (225 / 268) and the loop runs to its next await, or
\* it rejects and the catch of 245 / 296 ends the callback
monitorQuery(c, s, ok) ==
    /\ Alive
    /\ monitors[c][s].pc = "query"
    /\ IF ok
       THEN /\ monitorLoop(c, s, categoryQueryFilter(c, monitors[c][s].fromBlock,
                                                  monitors[c][s].currentBlock))
            /\ serviceLog' = ServiceStep(c, "query")
       ELSE /\ monitors' = [monitors EXCEPT ![c][s] = IdleMonitor]
            /\ serviceLog' = ServiceStep(c, "queryFailed")
            /\ UNCHANGED <<lastBlock, processedTaskKeys>>
    /\ UNCHANGED <<mainPc, started, categoryEvents>>

\* getTask / getSubmission resolves (234 / 277) and processKYCTask /
\* processProjectTask runs up to its submission, or it rejects and the
\* catch ends the callback
monitorGetTask(c, s, ok) ==
    /\ Alive
    /\ monitors[c][s].pc = "getTask"
    /\ IF ok
       THEN /\ monitors' = [monitors EXCEPT ![c][s].pc = "submit"]
            /\ serviceLog' = ServiceStep(c, "getTask")
       ELSE /\ monitors' = [monitors EXCEPT ![c][s] = IdleMonitor]
            /\ serviceLog' = ServiceStep(c, "getTaskFailed")
    /\ UNCHANGED <<mainPc, started, lastBlock, processedTaskKeys, categoryEvents>>

\* respondToTask and tx.wait resolve, or one rejects and the catch inside
\* processKYCTask / processProjectTask logs it: the loop goes on
monitorSubmit(c, s, sent) ==
    /\ Alive
    /\ monitors[c][s].pc = "submit"
    /\ monitorLoop(c, s, Tail(monitors[c][s].events))
    /\ serviceLog' = ServiceStep(c, IF sent THEN "submitted" ELSE "submitFailed")
    /\ UNCHANGED <<mainPc, started, categoryEvents>>

InitCategories ==
    /\ initialize
    /\ operatorRegistered = {}
    /\ blockNumber = 1
    /\ blockTimestamp = 1
    /\ NotStarted
    /\ projectDeployed
    /\ serviceNotStarted
    /\ responderNotRun

NextCategories ==
    \/ \E c \in Category, t \in CategoryTaskId :
            categoryTaskCreated(c, t) /\ UNCHANGED <<vars, watcher, projectLedger, manual>>
    \/ MineBlock /\ UNCHANGED others
    \/ serviceMain /\ UNCHANGED <<vars, watcher, projectLedger, manual>>
    \/ \E c \in Category, ok \in BOOLEAN :
            monitorStartup(c, ok) /\ UNCHANGED <<vars, watcher, projectLedger, manual>>
    \/ sigint /\ UNCHANGED <<vars, watcher, projectLedger, manual>>
    \/ \E c \in Category, s \in 1 .. MonitorTicks, ok \in BOOLEAN :
            monitorRead(c, s, ok) /\ UNCHANGED <<vars, watcher, projectLedger, manual>>
    \/ \E c \in Category, s \in 1 .. MonitorTicks, ok \in BOOLEAN :
            monitorQuery(c, s, ok) /\ UNCHANGED <<vars, watcher, projectLedger, manual>>
    \/ \E c \in Category, s \in 1 .. MonitorTicks, ok \in BOOLEAN :
            monitorGetTask(c, s, ok) /\ UNCHANGED <<vars, watcher, projectLedger, manual>>
    \/ \E c \in Category, s \in 1 .. MonitorTicks, sent \in BOOLEAN :
            monitorSubmit(c, s, sent) /\ UNCHANGED <<vars, watcher, projectLedger, manual>>

SpecCategories == InitCategories /\ [][NextCategories]_allVars

\* ------------------------------------------------------------------ claims

\* the storage a response call leaves is the storage it found
LeavesStorage(out) ==
    /\ out.tasks = tasks
    /\ out.taskResponses = taskResponses
    /\ out.kycResults = kycResults

\* C1: once a response to a task has been accepted (the task is COMPLETED),
\* no response to that task is accepted again: every further response, by any
\* sender with any signature, reverts and leaves tasks, responses and results
\* as stored by the first; from a registered operator with a valid signature
\* the error is TaskNotPending.
C1_ExactlyOnceAcceptance ==
    \A t \in TaskId :
        tasks[t].status = COMPLETED =>
            \A sender \in Sender, level \in KYCLevel, ipfsHash \in IpfsHash :
                /\ \A signature \in SignatureArg(sender, t, level, ipfsHash) :
                        LET out == respondToKYCTaskOutcome(sender, t, level, ipfsHash, signature)
                        IN  out.err # "OK" /\ LeavesStorage(out)
                /\ sender \in operatorRegistered =>
                        respondToKYCTaskOutcome(
                            sender, t, level, ipfsHash,
                            signResponse(sender, t, tasks[t].user, level, ipfsHash, This)
                        ).err = "TaskNotPending"

\* C1 witness: a second response to a completed task has just been rejected
C1_Witness ==
    /\ lastCall.op = "respondToKYCTask"
    /\ lastCall.err = "TaskNotPending"
    /\ tasks[lastCall.taskId].status = COMPLETED
    /\ kycResults[tasks[lastCall.taskId].user].verifiedBy # ZeroAddress

\* a step in which a task's status changes takes it from PENDING to COMPLETED
\* or EXPIRED
StatusStep ==
    \A t \in TaskId :
        tasks'[t].status # tasks[t].status =>
            /\ tasks[t].status = PENDING
            /\ tasks'[t].status \in {COMPLETED, EXPIRED}

\* C2: in every step, a task whose status changes was PENDING and becomes
\* COMPLETED or EXPIRED; no operation moves a task out of a terminal status
\* or back to PENDING: from no reachable state does the run have a step that
\* is not a StatusStep.
C2_StatusTransitions == ~ENABLED (NextManyTasks /\ ~StatusStep)

\* C2 witness: a task has just been created while an earlier task is COMPLETED
C2_Witness ==
    /\ lastCall.op \in {"createKYCTask", "requestKYC"}
    /\ lastCall.err = "OK"
    /\ tasks[lastCall.taskId].status = PENDING
    /\ \E t \in TaskId : t # lastCall.taskId /\ tasks[t].status = COMPLETED

\* C3: after a response has failed with TaskExpired, the task is stored
\* EXPIRED, not PENDING.
C3_ExpiredIsPersisted ==
    (lastCall.op = "respondToKYCTask" /\ lastCall.err = "TaskExpired") =>
        tasks[lastCall.taskId].status = EXPIRED

\* C4: after a response to a task has failed with TaskExpired, no further
\* response to that task fails with TaskExpired (they fail with TaskNotPending).
C4_NoSecondTaskExpired ==
    (lastCall.op = "respondToKYCTask" /\ lastCall.err = "TaskExpired") =>
        \A sender \in Sender, level \in LevelArg, ipfsHash \in IpfsArg :
            \A signature \in SignatureArg(sender, lastCall.taskId, level, ipfsHash) :
                respondToKYCTaskOutcome(sender, lastCall.taskId, level, ipfsHash,
                                        signature).err # "TaskExpired"

\* C5: EXPIRED is reachable from PENDING: for a PENDING task with a non-null
\* requirement that is past its expiry threshold, some response of a
\* registered operator leaves the task EXPIRED.
C5_ExpiredIsReachable ==
    \A t \in TaskId :
        ( /\ tasks[t].user # ZeroAddress
          /\ tasks[t].requiredLevel # NONE
          /\ tasks[t].status = PENDING
          /\ blockNumber - tasks[t].taskCreatedBlock > taskExpiryBlocks
          /\ operatorRegistered # {} )
        => \E sender \in operatorRegistered, level \in LevelArg, ipfsHash \in IpfsArg :
              \E signature \in SignatureArg(sender, t, level, ipfsHash) :
                  respondToKYCTaskOutcome(sender, t, level, ipfsHash,
                                          signature).tasks[t].status = EXPIRED

\* no task is ever stored EXPIRED (holds of the code: the status is unreachable)
NoTaskIsExpired == \A t \in TaskId : tasks[t].status # EXPIRED

C7_ResultsOnlyFromOperators ==
    [][ /\ \A u \in Address :
              kycResults'[u] # kycResults[u] =>
                  \/ kycResults'[u] = [kycResults[u] EXCEPT !.active = FALSE]
                  \/ \E t \in TaskId :
                        /\ tasks[t].user = u
                        /\ tasks[t].status = PENDING
                        /\ tasks'[t].status = COMPLETED
        /\ \A t \in TaskId :
              (tasks'[t].status = COMPLETED /\ tasks[t].status # COMPLETED) =>
                  LET u == tasks[t].user
                      r == kycResults'[u]
                  IN  /\ u # ZeroAddress
                      /\ r.verifiedBy \in operatorRegistered
                      /\ r.active
                      /\ taskResponses'[t]
                            = signResponse(r.verifiedBy, t, u, r.level, r.ipfsHash, This)
                      /\ lastCall' = Call("respondToKYCTask", t, r.level, "OK")
      ]_vars

\* C7 witness: a response has just been accepted and its result is stored
C7_Witness ==
    /\ lastCall.op = "respondToKYCTask"
    /\ lastCall.err = "OK"
    /\ kycResults[tasks[lastCall.taskId].user].verifiedBy \in operatorRegistered

\* C8: after an accepted response with level A to a task of subject S, and
\* until the result expires, is revoked or is overwritten, the task is
\* COMPLETED and hasValidKYC(S, L) is true exactly for the levels L <= A; the
\* result expires kycValidityPeriod after the response; and in general
\* hasValidKYC(u, L) = active /\ expiresAt > now /\ level >= L.
C8_HasValidAfterResponse ==
    /\ (lastCall.op = "respondToKYCTask" /\ lastCall.err = "OK") =>
            LET t == lastCall.taskId
                S == tasks[t].user
                A == lastCall.level
                r == kycResults[S]
            IN  /\ tasks[t].status = COMPLETED
                /\ r.verifiedAt <= blockTimestamp
                /\ r.expiresAt = r.verifiedAt + kycValidityPeriod
                /\ blockTimestamp < r.verifiedAt + kycValidityPeriod =>
                        \A L \in KYCLevel : hasValidKYC(S, L) <=> L <= A
    /\ \A u \in Address, L \in KYCLevel :
            hasValidKYC(u, L) <=>
                ( kycResults[u].active /\ kycResults[u].expiresAt > blockTimestamp
                  /\ kycResults[u].level >= L )

\* C8 witness: an accepted response with level INTERMEDIATE, not yet expired
C8_Witness ==
    /\ lastCall.op = "respondToKYCTask"
    /\ lastCall.err = "OK"
    /\ lastCall.level = INTERMEDIATE
    /\ hasValidKYC(tasks[lastCall.taskId].user, BASIC)
    /\ ~hasValidKYC(tasks[lastCall.taskId].user, ADVANCED)

\* C9: hasValidKYC is monotonic in the level: true for L, it is true for
\* every level below L, in the same state.
C9_HasValidMonotonic ==
    \A u \in Address, L \in KYCLevel, L2 \in KYCLevel :
        (L2 <= L /\ hasValidKYC(u, L)) => hasValidKYC(u, L2)

\* C9 witness: a subject valid at INTERMEDIATE (so at BASIC and NONE too)
C9_Witness == \E u \in Address : hasValidKYC(u, INTERMEDIATE)

\* C10: getUserKYCLevel returns a level for every subject: NONE when the
\* result is inactive, expired or absent, the stored level otherwise; and for
\* every level L >= BASIC, hasValidKYC(u, L) holds exactly when
\* getUserKYCLevel(u) >= L.
C10_UserLevel ==
    \A u \in Address :
        LET r == kycResults[u]
        IN  /\ getUserKYCLevel(u) \in KYCLevel
            /\ (~r.active \/ r.expiresAt <= blockTimestamp) => getUserKYCLevel(u) = NONE
            /\ (r.active /\ r.expiresAt > blockTimestamp) => getUserKYCLevel(u) = r.level
            /\ \A L \in BASIC .. ACCREDITED :
                    hasValidKYC(u, L) <=> getUserKYCLevel(u) >= L

\* C10 witness: an active result with a real level in the second it expires
C10_Witness ==
    \E u \in Address :
        /\ kycResults[u].active
        /\ kycResults[u].level >= BASIC
        /\ kycResults[u].expiresAt = blockTimestamp


\* what a creation call that passed its checks stores, and what a failed one leaves
CreatedAsGiven(out, user, requiredLevel) ==
    /\ out.taskId = nextTaskId
    /\ out.nextTaskId = nextTaskId + 1
    /\ out.tasks[out.taskId].status = PENDING
    /\ out.tasks[out.taskId].user = user
    /\ out.tasks[out.taskId].requiredLevel = requiredLevel
    /\ out.tasks[out.taskId].taskCreatedBlock = blockNumber
    /\ \A t \in TaskId \ {out.taskId} : out.tasks[t] = tasks[t]

CreationLeavesStorage(out) ==
    /\ out.nextTaskId = nextTaskId
    /\ out.tasks = tasks
    /\ out.taskHashes = taskHashes

\* the creation rule of C11 for one call's outcome
CreationRule(out, user, requiredLevel) ==
    /\ requiredLevel = NONE => out.err = "InvalidLevel"
    /\ requiredLevel # NONE =>
            (out.err = "AlreadyVerified" <=> hasValidKYC(user, requiredLevel))
    /\ (requiredLevel # NONE /\ ~hasValidKYC(user, requiredLevel)) =>
            (out.err = "OK" /\ CreatedAsGiven(out, user, requiredLevel))
    /\ out.err # "OK" => CreationLeavesStorage(out)

\* C11 as stated: creation with the null level fails with InvalidLevel,
\* whichever of the two functions is called and whoever calls it.
C11_NullLevelAlwaysInvalidLevel ==
    \A sender \in Sender, user \in Address, requestId \in RequestIdArg :
        /\ createKYCTaskOutcome(sender, user, NONE, requestId).err = "InvalidLevel"
        /\ requestKYCOutcome(sender, NONE).err = "InvalidLevel"

\* C11 amended: requestKYC by anyone, and createKYCTask by the owner or an
\* authorized caller, fail with InvalidLevel when the required level is NONE;
\* for a real level they fail with AlreadyVerified exactly when
\* hasValidKYC(subject, level) holds, and otherwise store a new PENDING task
\* under the ID nextTaskId with the given subject and level and the current
\* block; createKYCTask by any other caller fails with NotAuthorizedCaller.
\* A failed creation leaves nextTaskId, the tasks and the task hashes as they
\* were, and no creation step, failed or not, changes a result or a response.
C11_CreationRule ==
    /\ [](nextTaskId <= MaxTasks =>
            \A sender \in Sender, user \in Address, level \in KYCLevel,
               requestId \in RequestIdArg :
                /\ LET out == createKYCTaskOutcome(sender, user, level, requestId)
                   IN  IF onlyAuthorizedCaller(sender)
                       THEN CreationRule(out, user, level)
                       ELSE out.err = "NotAuthorizedCaller" /\ CreationLeavesStorage(out)
                /\ CreationRule(requestKYCOutcome(sender, level), sender, level))
    /\ [][lastCall'.op \in {"createKYCTask", "requestKYC"} /\ lastCall' # lastCall =>
            /\ kycResults' = kycResults
            /\ taskResponses' = taskResponses
            /\ lastCall'.err # "OK" =>
                    (nextTaskId' = nextTaskId /\ tasks' = tasks /\ taskHashes' = taskHashes)
            /\ lastCall'.err = "OK" =>
                    /\ lastCall'.taskId = nextTaskId
                    /\ nextTaskId' = nextTaskId + 1
                    /\ tasks'[nextTaskId].status = PENDING
                    /\ tasks'[nextTaskId].requiredLevel = lastCall'.level
                    /\ tasks'[nextTaskId].taskCreatedBlock = blockNumber
      ]_vars

\* C11 witness: a creation has just failed with AlreadyVerified for a subject
\* holding a valid result
C11_Witness ==
    /\ lastCall.op \in {"createKYCTask", "requestKYC"}
    /\ lastCall.err = "AlreadyVerified"
    /\ \E u \in Address : hasValidKYC(u, MaxLevelArg)


\* a task ID has been assigned when its task hash has been stored
Assigned(t) == taskHashes[t] # <<>>

\* a step moves the counter up by one or not at all; it moves it in a
\* successful creation that returns the ID the counter held, never assigned
\* before, and no assigned ID changes its hash or its subject
CounterStep ==
    /\ nextTaskId' >= nextTaskId
    /\ nextTaskId' # nextTaskId =>
        /\ nextTaskId' = nextTaskId + 1
        /\ nextTaskId < Uint32Max
        /\ ~Assigned(nextTaskId)
        /\ taskHashes'[nextTaskId] # <<>>
        /\ lastCall'.op \in {"createKYCTask", "requestKYC"}
        /\ lastCall'.err = "OK"
        /\ lastCall'.taskId = nextTaskId
    /\ \A t \in TaskId : Assigned(t) =>
        (taskHashes'[t] = taskHashes[t] /\ tasks'[t].user = tasks[t].user)
    /\ nextTaskId' = nextTaskId => \A t \in TaskId : Assigned(t)' <=> Assigned(t)

\* C12: task IDs are unique and increasing: the first ID is 1, every
\* successful creation (createKYCTask or requestKYC, in any interleaving)
\* returns the ID nextTaskId, never assigned before, and moves the counter up
\* by one; the counter never goes down; at the counter type's limit creation
\* fails and assigns nothing; in every state exactly the IDs 1 .. nextTaskId-1
\* have been assigned.
C12_TaskIdsSequential ==
    /\ nextTaskId \in 1 .. Uint32Max
    /\ \A t \in TaskId : Assigned(t) <=> (1 <= t /\ t < nextTaskId)
    /\ \A t \in TaskId : ~Assigned(t) => tasks[t] = EmptyTask
    /\ ~ENABLED (NextManyTasks /\ ~CounterStep)

\* C12 witness: the counter is at its limit after the IDs 1, 2, ... were
\* assigned by both functions, and a further creation has just failed
C12_Witness ==
    /\ nextTaskId = Uint32Max
    /\ \A t \in 1 .. MaxTasks : Assigned(t)
    /\ lastCall.op \in {"createKYCTask", "requestKYC"}
    /\ lastCall.err = "Panic"
    /\ \E t \in TaskId : tasks[t].requestId \notin RequestIdArg \cup {<<>>}
    /\ \E t \in TaskId : tasks[t].requestId \in RequestIdArg


\* the four errors of C13
FrameErrors == {"TaskNotFound", "TaskNotPending", "InvalidSignature", "NotOperator"}

\* C13: a respondToKYCTask call that fails with TaskNotFound, TaskNotPending,
\* InvalidSignature or NotOperator leaves the ledger as it was: the tasks, the
\* results, the stored responses, the task hashes, nextTaskId, the
\* configuration and the authorized callers.
C13_FailedResponseFrame ==
    /\ [](\A sender \in Sender, t \in TaskId, level \in KYCLevel, ipfsHash \in IpfsHash :
            \A signature \in SignatureArg(sender, t, level, ipfsHash) :
                LET out == respondToKYCTaskOutcome(sender, t, level, ipfsHash, signature)
                IN  out.err \in FrameErrors => LeavesStorage(out))
    /\ [][(/\ lastCall' # lastCall
           /\ lastCall'.op = "respondToKYCTask"
           /\ lastCall'.err \in FrameErrors) => UNCHANGED ledger]_vars

\* C13 witness: a response to an existing PENDING task has just failed with
\* NotOperator while another address is a registered operator
C13_Witness ==
    /\ lastCall.op = "respondToKYCTask"
    /\ lastCall.err = "NotOperator"
    /\ tasks[lastCall.taskId].user # ZeroAddress
    /\ tasks[lastCall.taskId].status = PENDING
    /\ operatorRegistered # {}


\* the signature of sender that the instance deployed at ledgerAddress accepts
\* for a response (taskId, level, ipfsHash) to a task of user
SignatureFor(ledgerAddress, sender, taskId, user, level, ipfsHash) ==
    signMessage(sender, keccak256(encodePacked(taskId, user, level, ipfsHash, ledgerAddress)))

\* the responses C14 is about: to a PENDING task of this ledger, with a
\* signature that the other instance accepts from the same sender for a task
\* with the same ID and user
AcceptedByOtherLedger(sender, t, level, ipfsHash, signature) ==
    /\ tasks[t].user # ZeroAddress
    /\ tasks[t].status = PENDING
    /\ SignatureVerifiesAt(OtherLedger, t, tasks[t].user, level, ipfsHash, signature, sender)

TicksOn(t) == { s \in 1 .. MaxTicks : ticks[s].pc \in {"getTask", "submit"} /\ ticks[s].taskId = t }

ListenerOn(t) == listeners[t].pc \in {"getTask", "submit"}

\* C15: within one lifetime of the operator service every task is handed to
\* processing at most once and submitted at most once, whatever the
\* interleaving of overlapping ticks and listener calls: a task is in
\* processedTasks from before its getTask call on, at most one call holds it,
\* a task whose submission failed is not submitted again, and while the
\* process runs no task leaves processedTasks.
C15_HandedAtMostOnce ==
    /\ [](\A t \in TaskId :
            /\ handed[t] <= 1
            /\ submissions[t] <= handed[t]
            /\ (handed[t] = 1) <=> (t \in processedTasks)
            /\ Cardinality(TicksOn(t)) + (IF ListenerOn(t) THEN 1 ELSE 0) <= 1
            /\ (TicksOn(t) # {} \/ ListenerOn(t)) => t \in processedTasks)
    /\ [][(running /\ running') => processedTasks \subseteq processedTasks']_allVars

\* C15 witness: the listener was called for a task that a tick had taken and
\* returned; the tick's one submission failed, the task is still PENDING, its
\* block has been queried and passed, and nothing holds the task any more
C15_Witness ==
    \E t \in TaskId :
        /\ running
        /\ listeners[t].pc = "done"
        /\ handed[t] = 1
        /\ submissions[t] = 1
        /\ tasks[t].status = PENDING
        /\ tasks[t].taskCreatedBlock \in queried
        /\ lastCheckedBlock >= tasks[t].taskCreatedBlock
        /\ TicksOn(t) = {}

\* C16: in every reachable state of the running service every block after
\* the startup block and up to the cursor lastCheckedBlock lies in the range
\* of a completed queryFilter call, whatever the interleaving of ticks; and
\* the cursor only moves to the upper end of a range whose query has
\* completed.
C16_NoRangeSkipped ==
    /\ [](running => \A b \in startupBlock + 1 .. lastCheckedBlock : b \in queried)
    /\ [][(running /\ running' /\ lastCheckedBlock' # lastCheckedBlock) =>
             \E s \in 1 .. MaxTicks :
                 /\ lastCheckedBlock' = ticks[s].toBlock
                 /\ (ticks[s].fromBlock .. ticks[s].toBlock) \subseteq queried'
                 /\ ticks'[s] = IdleTick]_allVars

\* C16 witness: the cursor has moved past the startup block while an
\* overlapping tick, which read the cursor earlier, still holds a range the
\* cursor has already passed
C16_Witness ==
    /\ running
    /\ lastCheckedBlock > startupBlock
    /\ \E s \in 1 .. MaxTicks :
          /\ ticks[s].pc # "idle"
          /\ ticks[s].toBlock <= lastCheckedBlock

\* the start of the range the next tick queries: the cursor plus one (583)
NextTickStart == lastCheckedBlock + 1

C18_NeverSubmitsForNonPending ==
    /\ \A s \in 1 .. MaxTicks :
          ticks[s].pc = "submit" => ticks[s].task.status = PENDING
    /\ \A t \in TaskId :
          listeners[t].pc = "submit" => listeners[t].task.status = PENDING
    /\ \A t \in 1 .. MaxTasks :
          (Emitted(t) /\ tasks[t].status # PENDING) =>
              LET out == respondToKYCTaskOutcome(OperatorWallet, t, verifyKYC(tasks[t]),
                             uploadToIPFS(tasks[t]),
                             signResponse(OperatorWallet, t, tasks[t].user,
                                          verifyKYC(tasks[t]), uploadToIPFS(tasks[t]), This))
              IN  out.err = "TaskNotPending" /\ LeavesStorage(out)

Declining == {"declined", "uploadFailed", "signFailed"}

\* C19: a step in which verifyKYC declines a task, or uploadToIPFS or
\* signResponse throws, submits nothing and leaves the ledger unchanged; the
\* task stays in processedTasks and no call holds it any more; a tick goes on
\* with the next event of its batch that is not in processedTasks, or, after
\* the last one, sets the cursor and ends; a listener call ends.
C19_DeclinedTaskIsDropped ==
    [][watcherLog'.step \in Declining =>
         /\ \A s \in 1 .. MaxTicks :
               (ticks[s].pc = "getTask" /\ ticks'[s] # ticks[s]) =>
                   LET declinedTask == ticks[s].taskId
                       left == NotProcessed(ticks[s].events, processedTasks)
                   IN  /\ declinedTask \in processedTasks'
                       /\ ticks'[s].pc # "submit" \/ ticks'[s].taskId # declinedTask
                       /\ IF left = <<>>
                          THEN ticks'[s] = IdleTick /\ lastCheckedBlock' = ticks[s].toBlock
                          ELSE /\ ticks'[s].pc = "getTask"
                               /\ ticks'[s].taskId = Head(left)
                               /\ Head(left) \in processedTasks'
                       /\ submissions' = submissions
                       /\ running'
                       /\ UNCHANGED <<ledger, chain, operatorRegistered, lastCall>>
         /\ \A t \in TaskId :
               (listeners[t].pc = "getTask" /\ listeners'[t] # listeners[t]) =>
                   /\ t \in processedTasks'
                   /\ listeners'[t].pc = "done"
                   /\ submissions' = submissions
                   /\ running'
                   /\ UNCHANGED <<ledger, chain, operatorRegistered, lastCall>>]_allVars

\* C19 witness: a tick's batch held two tasks; the first was declined, is in
\* processedTasks, was never submitted and is still PENDING, and the tick is
\* now fetching the second
C19_Witness ==
    \E s \in 1 .. MaxTicks, t \in 1 .. MaxTasks :
        /\ watcherLog.step = "declined"
        /\ ticks[s].pc = "getTask"
        /\ ticks[s].taskId > t
        /\ tasks[t].taskCreatedBlock = ticks[s].fromBlock
        /\ t \in processedTasks
        /\ handed[t] = 1
        /\ submissions[t] = 0
        /\ tasks[t].status = PENDING
        /\ listeners[t].pc = "none"
        /\ \A r \in 1 .. MaxTicks : r # s => ticks[r].pc = "idle"

\* the tasks created in a block mined before the service read the block
\* number at startup
CreatedBeforeStartup == { t \in TaskId : Emitted(t) /\ tasks[t].taskCreatedBlock <= startupBlock }

\* C20: the startup sets the cursor to the latest block; from then on the
\* cursor is never below that block, every range a tick computes and every
\* block a query has covered lies after it, and a task created in that block
\* or an earlier one is never taken by a tick, handed to processTask or put
\* in processedTasks.
C20_NothingBeforeStartupIsPolled ==
    /\ [](running =>
            /\ lastCheckedBlock >= startupBlock
            /\ \A b \in queried : b > startupBlock
            /\ \A s \in 1 .. MaxTicks :
                  ticks[s].pc # "idle" => ticks[s].fromBlock > startupBlock
            /\ \A t \in CreatedBeforeStartup :
                  /\ TicksOn(t) = {}
                  /\ handed[t] = 0
                  /\ t \notin processedTasks)
    /\ [][(~running /\ running') =>
             /\ lastCheckedBlock' = getBlockNumber
             /\ startupBlock' = getBlockNumber]_allVars

\* C20 witness: a task created before the startup is still PENDING and
\* untouched, while polling has moved the cursor past the startup block and
\* has handed over a task created after it
C20_Witness ==
    /\ running
    /\ lastCheckedBlock > startupBlock
    /\ \E t \in CreatedBeforeStartup :
          /\ tasks[t].status = PENDING
          /\ handed[t] = 0
    /\ \E u \in TaskId \ CreatedBeforeStartup :
          /\ handed[u] = 1
          /\ listeners[u].pc = "none"

\* the failure conditions of a response, each taken by itself
FailureHolds(err, sender, taskId, achievedLevel, ipfsHash, signature) ==
    LET task == tasks[taskId]
    IN  CASE err = "NotOperator" -> sender \notin operatorRegistered
          [] err = "TaskNotFound" -> task.user = ZeroAddress
          [] err = "TaskNotPending" -> task.status # PENDING
          [] err = "TaskExpired" -> blockNumber > task.taskCreatedBlock + taskExpiryBlocks
          [] err = "InvalidSignature" ->
                 ~SignatureVerifiesAt(This, taskId, task.user, achievedLevel, ipfsHash,
                                      signature, sender)

\* the first condition of an order that holds for a call, "OK" when none does
FirstFailure(order, sender, taskId, achievedLevel, ipfsHash, signature) ==
    LET holding == { i \in 1 .. Len(order) :
                        FailureHolds(order[i], sender, taskId, achievedLevel, ipfsHash,
                                     signature) }
    IN  IF holding = {} THEN "OK"
        ELSE order[CHOOSE i \in holding : \A j \in holding : i <= j]

StatedOrder == <<"TaskNotFound", "TaskNotPending", "TaskExpired", "InvalidSignature", "NotOperator">>

CheckedOrder == <<"NotOperator", "TaskNotFound", "TaskNotPending", "TaskExpired", "InvalidSignature">>

\* the responses with a signature of the right form, by any sender to any
\* task ID, that report the first failure of an order
ReportsFirstOf(order) ==
    \A sender \in Sender, taskId \in 1 .. MaxTasks, level \in LevelArg, ipfsHash \in IpfsArg :
        \A signature \in SignatureArg(sender, taskId, level, ipfsHash) \ {MalformedSignature} :
            respondToKYCTaskOutcome(sender, taskId, level, ipfsHash, signature).err
                = FirstFailure(order, sender, taskId, level, ipfsHash, signature)

\* C22 as stated: a response reports the first condition that holds in the
\* order TaskNotFound, TaskNotPending, TaskExpired, InvalidSignature,
\* NotOperator.
C22_StatedErrorOrder == ReportsFirstOf(StatedOrder)

\* C22: a response reports the first condition that holds in the order
\* NotOperator, TaskNotFound, TaskNotPending, TaskExpired, InvalidSignature
\* (a non-operator responding to a non-existent task gets NotOperator), and
\* succeeds when none holds.
C22_ErrorOrder == ReportsFirstOf(CheckedOrder)

\* C22 witness: the claim's example has just happened, a response by a
\* sender that is not an operator to a task that does not exist, and it
\* failed with NotOperator
C22_Witness ==
    /\ lastCall.op = "respondToKYCTask"
    /\ lastCall.err = "NotOperator"
    /\ tasks[lastCall.taskId].user = ZeroAddress
    /\ \E sender \in Sender \ operatorRegistered, level \in LevelArg, ipfsHash \in IpfsArg :
          \E signature \in SignatureArg(sender, lastCall.taskId, level, ipfsHash)
                              \ {MalformedSignature} :
              /\ FailureHolds("TaskNotFound", sender, lastCall.taskId, level, ipfsHash, signature)
              /\ FailureHolds("NotOperator", sender, lastCall.taskId, level, ipfsHash, signature)

\* the ticks whose callback is between its first await and its end
TicksInFlight == { s \in 1 .. MaxTicks : ticks[s].pc # "idle" }

\* C23 as stated: no two poll cycles run in parallel; at most one tick's
\* callback is in flight at a time, so the cursor and processedTasks are
\* used by one cycle at a time.
C23_OneCycleAtATime == Cardinality(TicksInFlight) <= 1

\* C24 as stated: while the service runs, every assignment to the cursor
\* lastCheckedBlock sets it to a value greater than or equal to the one it
\* has.
C24_CursorNeverDecreases ==
    [][(running /\ running') => lastCheckedBlock' >= lastCheckedBlock]_allVars

\* C25 as stated: the range of every query a tick has issued ends at or
\* before the latest block and spans at most BLOCK_RANGE blocks.
C25_QueryWithinWindow ==
    \A s \in TicksInFlight :
        /\ ticks[s].toBlock <= getBlockNumber
        /\ ticks[s].toBlock - ticks[s].fromBlock + 1 <= BLOCK_RANGE

\* C26 as stated, in the form a finite run refutes.  A task in
\* processedTasks is never taken up again (C15), so a task can still be
\* handed to verifyKYC by a later cycle only if the call that gives it up
\* without having called processTask leaves it out of processedTasks.  The
\* claim requires this of a tick whose getTask rejects (the catch of line
\* 612) and of a listener call whose getTask rejects.
C26_FailedReadLeavesTaskEligible ==
    [][/\ \A s \in 1 .. MaxTicks :
             ( /\ ticks[s].pc = "getTask"
               /\ ticks'[s] = IdleTick
               /\ watcherLog'.step = "pollFailed" )
             => ticks[s].taskId \notin processedTasks'
       /\ \A t \in TaskId :
             ( /\ listeners[t].pc = "getTask"
               /\ listeners'[t].pc = "done"
               /\ watcherLog' = Quiet )
             => t \notin processedTasks']_allVars

\* the tasks whose response a call is submitting: the call has signed the
\* response and awaits respondToKYCTask and the receipt (542-549)
SubmissionsInFlight ==
    { ticks[s].taskId : s \in { r \in 1 .. MaxTicks : ticks[r].pc = "submit" } }
        \cup { t \in TaskId : listeners[t].pc = "submit" }

\* C28 as stated: the process does not end while a submission is in flight
\* unless the shutdown reports the submission as incomplete.
C28_ShutdownKeepsSubmissions ==
    [][(running /\ ~running') =>
          \/ SubmissionsInFlight = {}
          \/ watcherLog'.step = "incomplete"]_allVars

AcceptedProjectResponse(operator, t, status, qualityScore, verifiedCredits, verificationUri) ==
    respondToTaskOutcome(operator, t, status, qualityScore, verifiedCredits, verificationUri,
        signProjectResponse(operator, t, projectSubmissions[t].owner, status, qualityScore,
                            verifiedCredits, verificationUri, CONTRACT_ADDRESS)).err = "OK"

\* the response above resent with other values and the same signature
ChangedProjectResponse(operator, t, status, qualityScore, verifiedCredits, verificationUri, t2, status2, qualityScore2, verifiedCredits2, verificationUri2) ==
    respondToTaskOutcome(operator, t2, status2, qualityScore2, verifiedCredits2,
        verificationUri2,
        signProjectResponse(operator, t, projectSubmissions[t].owner, status, qualityScore,
                            verifiedCredits, verificationUri, CONTRACT_ADDRESS))

\* C30 (as stated, project category): in every reachable state, an accepted
\* project response in which the task ID or one result field (status,
\* quality score, verified credits, verification URI) is changed while the
\* signature is kept is rejected with InvalidSignature.
C30_EveryFieldIsSigned ==
    \A operator \in operators, t \in 1 .. MaxProjects, status \in StatusArg,
       qualityScore \in QualityScore, verifiedCredits \in VerifiedCredits,
       verificationUri \in VerificationUri :
        AcceptedProjectResponse(operator, t, status, qualityScore, verifiedCredits,
                                verificationUri)
        => /\ \A t2 \in ProjectId \ {t} :
                  ChangedProjectResponse(operator, t, status, qualityScore, verifiedCredits,
                      verificationUri, t2, status, qualityScore, verifiedCredits,
                      verificationUri).err = "InvalidSignature"
           /\ \A status2 \in StatusArg \ {status} :
                  ChangedProjectResponse(operator, t, status, qualityScore, verifiedCredits,
                      verificationUri, t, status2, qualityScore, verifiedCredits,
                      verificationUri).err = "InvalidSignature"
           /\ \A qualityScore2 \in QualityScore \ {qualityScore} :
                  ChangedProjectResponse(operator, t, status, qualityScore, verifiedCredits,
                      verificationUri, t, status, qualityScore2, verifiedCredits,
                      verificationUri).err = "InvalidSignature"
           /\ \A verifiedCredits2 \in VerifiedCredits \ {verifiedCredits} :
                  ChangedProjectResponse(operator, t, status, qualityScore, verifiedCredits,
                      verificationUri, t, status, qualityScore, verifiedCredits2,
                      verificationUri).err = "InvalidSignature"
           /\ \A verificationUri2 \in VerificationUri \ {verificationUri} :
                  ChangedProjectResponse(operator, t, status, qualityScore, verifiedCredits,
                      verificationUri, t, status, qualityScore, verifiedCredits,
                      verificationUri2).err = "InvalidSignature"

\* the part of C30 that fails for the verification URI alone: a response
\* whose URI was changed is never accepted
UriChangeIsRejected ==
    \A operator \in operators, t \in 1 .. MaxProjects, status \in StatusArg,
       qualityScore \in QualityScore, verifiedCredits \in VerifiedCredits,
       verificationUri \in VerificationUri :
        AcceptedProjectResponse(operator, t, status, qualityScore, verifiedCredits,
                                verificationUri)
        => \A verificationUri2 \in VerificationUri \ {verificationUri} :
               ChangedProjectResponse(operator, t, status, qualityScore, verifiedCredits,
                   verificationUri, t, status, qualityScore, verifiedCredits,
                   verificationUri2).err # "OK"

\* the fields of C30 that are signed: a changed status, quality score or
\* amount of credits is rejected with InvalidSignature, and so is a change
\* of the task ID to another PENDING task
SignedProjectFieldsAreCovered ==
    \A operator \in operators, t \in 1 .. MaxProjects, status \in StatusArg,
       qualityScore \in QualityScore, verifiedCredits \in VerifiedCredits,
       verificationUri \in VerificationUri :
        AcceptedProjectResponse(operator, t, status, qualityScore, verifiedCredits,
                                verificationUri)
        => \A t2 \in 1 .. MaxProjects, status2 \in StatusArg, qualityScore2 \in QualityScore,
              verifiedCredits2 \in VerifiedCredits :
               ( /\ <<t2, status2, qualityScore2, verifiedCredits2>>
                        # <<t, status, qualityScore, verifiedCredits>>
                 /\ projectSubmissions[t2].owner # ZeroAddress
                 /\ projectSubmissions[t2].status = PENDING )
               => ChangedProjectResponse(operator, t, status, qualityScore, verifiedCredits,
                      verificationUri, t2, status2, qualityScore2, verifiedCredits2,
                      verificationUri).err = "InvalidSignature"

\* the identity category: an accepted KYC response whose level or proof
\* reference is changed while the signature is kept is rejected with
\* InvalidSignature
KYCResultFieldsAreCovered ==
    \A wallet \in operatorRegistered, t \in 1 .. MaxTasks, level \in LevelArg,
       ipfsHash \in IpfsHash :
        LET signature == signResponse(wallet, t, tasks[t].user, level, ipfsHash, This)
        IN  respondToKYCTaskOutcome(wallet, t, level, ipfsHash, signature).err = "OK"
            => \A level2 \in LevelArg, ipfsHash2 \in IpfsHash :
                   <<level2, ipfsHash2>> # <<level, ipfsHash>>
                   => respondToKYCTaskOutcome(wallet, t, level2, ipfsHash2, signature).err
                          = "InvalidSignature"

\* the steps of a poll cycle, those that are failures, and the failures of
\* the service as a whole (a monitor's startup read included)
TickSteps ==
    {"read", "nothingNew", "readFailed", "query", "queryFailed", "getTask",
     "getTaskFailed", "submitted", "submitFailed"}
TickFailures == {"readFailed", "queryFailed", "getTaskFailed", "submitFailed"}
Failures == TickFailures \cup {"startupFailed"}

\* a step of a poll cycle of category c leaves the other category's cursor,
\* callbacks and processed keys as they were, and a poll cycle's query
\* starts right after its own category's cursor
Isolation(c) ==
    (serviceLog'.category = c /\ serviceLog'.step \in TickSteps)
    => /\ lastBlock'[Other(c)] = lastBlock[Other(c)]
       /\ monitors'[Other(c)] = monitors[Other(c)]
       /\ \A t \in CategoryTaskId :
              key(Other(c), t) \in processedTaskKeys' <=> key(Other(c), t) \in processedTaskKeys
       /\ \A s \in 1 .. MonitorTicks :
              (monitors[c][s].pc = "idle" /\ monitors'[c][s].pc = "query")
              => monitors'[c][s].fromBlock = lastBlock[c] + 1

\* a failure of category c, of one of the given kinds, leaves the other
\* category's interval set and the process alive
NoPrevention(c, kinds) ==
    (serviceLog'.category = c /\ serviceLog'.step \in kinds /\ Other(c) \in started)
    => /\ Other(c) \in started'
       /\ Alive'
       /\ lastBlock'[Other(c)] = lastBlock[Other(c)]

\* while a submission of category c is in flight, a callback of the other
\* category, once its interval is set, can start in every free slot
TickEnabledWhileSubmitting ==
    \A c \in Category, s \in 1 .. MonitorTicks :
        (monitors[c][s].pc = "submit" /\ Other(c) \in started)
        => \A r \in 1 .. MonitorTicks :
               monitors[Other(c)][r].pc = "idle" => ENABLED monitorRead(Other(c), r, TRUE)

CategoryQueryWithinOneBlock ==
    \A c \in Category, s \in 1 .. MonitorTicks :
        monitors[c][s].pc = "query"
        => monitors[c][s].currentBlock - monitors[c][s].fromBlock + 1 <= 1

\* ------------------------------------------------------------------- C31
\* the response the operator op would send now for task taskId at level, with
\* its own signature
OwnResponse(op, taskId, level) ==
    respondToKYCTaskOutcome(op, taskId, level, 1, signResponse(op, taskId, tasks[taskId].user, level, 1, This))

\* the tasks a response can still complete as far as lines 193-195 go
OpenTasks == {t \in 1 .. MaxTasks : TaskFound(tasks[t]) /\ TaskPending(tasks[t])}

\* C31: for every pending task and every threshold a uint32 can hold, a
\* registered operator's correctly signed response fails with TaskExpired
\* exactly when the task's age in blocks is above the threshold, and otherwise
\* is accepted: the arithmetic of the check makes it fail in no other way.
C31_ExpiryIsAgeAboveThreshold ==
    \A t \in OpenTasks, op \in operatorRegistered :
        LET age == blockNumber - tasks[t].taskCreatedBlock
            err == OwnResponse(op, t, BASIC).err
        IN  /\ err \in {"OK", "TaskExpired"}
            /\ err = "TaskExpired" <=> age > taskExpiryBlocks

\* ------------------------------------------------------------------- C38
\* the expiry decision of a correctly signed response for task t
ExpiredNow(t) == \E op \in operatorRegistered : OwnResponse(op, t, BASIC).err = "TaskExpired"

\* a step that ends a setConfig call changed no task record, response or
\* result, and in the state it leaves a pending task is expired exactly when
\* its age is above the threshold the call has set
ConfigStep ==
    lastCall'.op = "setConfig"
        => /\ UNCHANGED <<tasks, taskHashes, taskResponses, kycResults, nextTaskId>>
           /\ \A t \in OpenTasks :
                ExpiredNow(t)' <=> blockNumber' - tasks'[t].taskCreatedBlock > taskExpiryBlocks'

\* C38: the threshold of the expiry check is the one in force when the
\* response arrives: in the state a setConfig leaves, a response for a pending
\* task is rejected as expired exactly when the task's age is above the new
\* threshold, whatever the threshold was when the task was created; and the
\* setConfig changed no task record, response or result.
C38_ThresholdReadAtResponse == ~ENABLED (NextConfig /\ ~ConfigStep)

\* a setConfig was the last call, a pending task is one block old and the
\* threshold now in force is one block: the response is accepted
C38_Witness ==
    /\ lastCall.op = "setConfig"
    /\ taskExpiryBlocks = 1
    /\ \E t \in OpenTasks, op \in operatorRegistered :
            /\ blockNumber - tasks[t].taskCreatedBlock = 1
            /\ OwnResponse(op, t, BASIC).err = "OK"

\* never: a setConfig lowers the threshold and a responsive task becomes expired
NeverLoweredIntoExpiry ==
    [][ ~ /\ taskExpiryBlocks' < taskExpiryBlocks
          /\ \E t \in OpenTasks : ~ExpiredNow(t) /\ ExpiredNow(t)' ]_vars

\* never: a setConfig raises the threshold and an expired task becomes acceptable
NeverRaisedIntoAcceptance ==
    [][ ~ /\ taskExpiryBlocks' > taskExpiryBlocks
          /\ \E t \in OpenTasks, op \in operatorRegistered :
                /\ ExpiredNow(t)
                /\ (OwnResponse(op, t, BASIC).err)' = "OK" ]_vars

\* ------------------------------------------------------------------- C33
\* the subjects a result was written for
Verified == {u \in Sender : kycResults[u].verifiedAt > 0}

\* a response was accepted in this step and wrote the result of subject u
ResultWritten(u) ==
    /\ lastCall'.op = "respondToKYCTask" /\ lastCall'.err = "OK"
    /\ tasks' # tasks
    /\ tasks[lastCall'.taskId].user = u

\* reading a stored result: valid for the levels up to its own from the time
\* it was written until its expiry time, and never from the expiry time on
ReadByExpiry ==
    \A u \in Verified :
        LET result == kycResults[u]
        IN  /\ result.verifiedAt <= blockTimestamp
            /\ result.active =>
                \A L \in NONE .. result.level :
                    hasValidKYC(u, L) <=> blockTimestamp < result.expiresAt
            /\ result.expiresAt = result.verifiedAt => \A L \in LevelArg : ~hasValidKYC(u, L)

\* a stale result does not stand in the way of a new task
StaleAllowsCreation ==
    \A u \in Verified, L \in BASIC .. MaxLevelArg :
        (blockTimestamp >= kycResults[u].expiresAt /\ ~IncrementOverflows(nextTaskId))
            => createKYCTaskError(owner, u, L) = "OK"

\* a step in which time passes changes no stored field, and a step that
\* writes a result stamps it with the current time and that time plus the
\* validity period
ExpiryStep ==
    /\ blockTimestamp' # blockTimestamp => UNCHANGED <<ledger, operatorRegistered>>
    /\ \A u \in Sender :
        ResultWritten(u) =>
            /\ kycResults'[u].verifiedAt = blockTimestamp
            /\ kycResults'[u].expiresAt = blockTimestamp + kycValidityPeriod

\* C33: a result written at time t under validity period V expires at t + V,
\* and nothing but reading decides staleness: the passage of time changes no
\* stored field, hasValidKYC for a level up to the result's is true from t
\* until t + V and false from t + V on (never true when V = 0), and once the
\* result is stale createKYCTask for the subject is accepted again.
C33_ExpiryAtReadTime ==
    /\ ReadByExpiry
    /\ StaleAllowsCreation
    /\ ~ENABLED (NextConfig /\ ~ExpiryStep)

\* a result written under a validity period of two seconds is read at its
\* expiry time: it is stored unchanged, no longer valid, and a new task for the
\* subject would be accepted
C33_Witness ==
    \E u \in Verified :
        /\ kycResults[u].active
        /\ kycResults[u].expiresAt = kycResults[u].verifiedAt + 2
        /\ blockTimestamp = kycResults[u].expiresAt
        /\ ~hasValidKYC(u, BASIC)
        /\ createKYCTaskError(owner, u, BASIC) = "OK"

\* ------------------------------------------------------------------- C32
\* the subjects whose result is stored but not active
Revoked == {u \in Verified : ~kycResults[u].active}

\* a revoked result answers no read, and a pending task of its subject that is
\* not past expiry can be completed and makes the result active again
RevokedUntilNextResponse ==
    \A u \in Revoked :
        /\ \A L \in LevelArg : ~hasValidKYC(u, L)
        /\ getUserKYCLevel(u) = NONE
        /\ \A t \in OpenTasks, op \in operatorRegistered, L \in {BASIC, MaxLevelArg} :
                (tasks[t].user = u /\ ~ExpiredNow(t))
                    => /\ OwnResponse(op, t, L).err = "OK"
                       /\ OwnResponse(op, t, L).kycResults[u].active
                       /\ OwnResponse(op, t, L).kycResults[u].level = L

\* a step that ends a revokeKYC call changed at most the active flag of one
\* subject's result, and a step that leaves a revoked result active is an
\* accepted response for a task of its subject
RevocationStep ==
    /\ lastCall'.op = "revokeKYC" =>
        /\ UNCHANGED <<nextTaskId, tasks, taskHashes, taskResponses, taskExpiryBlocks, kycValidityPeriod, authorizedCallers>>
        /\ \A u \in Address :
            \/ kycResults'[u] = kycResults[u]
            \/ /\ kycResults'[u] = [kycResults[u] EXCEPT !.active = FALSE]
               /\ \A v \in Address \ {u} : kycResults'[v] = kycResults[v]
    /\ \A u \in Revoked : kycResults'[u].active => ResultWritten(u)

\* C32: revokeKYC clears the active flag of one subject's result and nothing
\* else (no task record, no other subject's result, no other field of the
\* revoked result); from then on hasValidKYC is false for every level and
\* getUserKYCLevel is NONE, until a response for a task of that subject is
\* accepted, which a task pending since before the revocation still allows.
C32_RevocationClearsOnlyActive ==
    /\ RevokedUntilNextResponse
    /\ ~ENABLED (NextManyTasks /\ ~RevocationStep)

\* after a revocation the subject's result is stored but inactive, and a task
\* of the subject created before it is pending and still in time
C32_Witness ==
    /\ lastCall.op = "revokeKYC"
    /\ \E u \in Revoked, t \in OpenTasks, op \in operatorRegistered :
            /\ kycResults[u].level = MaxLevelArg
            /\ tasks[t].user = u
            /\ OwnResponse(op, t, BASIC).err = "OK"

\* ------------------------------------------------------------------- C34
\* the payload of a response by op at level L with proof reference h, as a result
Payload(op, L, h) ==
    [level |-> L, verifiedAt |-> blockTimestamp, expiresAt |-> blockTimestamp + kycValidityPeriod, verifiedBy |-> op, ipfsHash |-> h, active |-> TRUE]

\* whatever is stored for the subject, an accepted response replaces it by its
\* payload and leaves the other subjects' results alone
AcceptedResponseReplacesResult ==
    \A t \in OpenTasks, op \in operatorRegistered, L \in LevelArg, h \in IpfsHash :
        LET out == respondToKYCTaskOutcome(op, t, L, h, signResponse(op, t, tasks[t].user, L, h, This))
        IN  out.err = "OK" =>
                /\ out.kycResults[tasks[t].user] = Payload(op, L, h)
                /\ \A v \in Address \ {tasks[t].user} : out.kycResults[v] = kycResults[v]

\* a step that writes a subject's result stores the payload of the response
\* accepted in it
WrittenResultIsPayload ==
    \A u \in Sender :
        ResultWritten(u) =>
            \E op \in operatorRegistered, h \in IpfsHash :
                kycResults'[u] = Payload(op, lastCall'.level, h)

\* C34: the stored result of a subject is the payload of the latest accepted
\* response for any of its tasks: each accepted response replaces the whole
\* result (level, proof reference, verifiedBy, verifiedAt, expiresAt, active)
\* by its own values, also when its level is below the stored one.
C34_LatestResponseWins ==
    /\ AcceptedResponseReplacesResult
    /\ ~ENABLED (NextManyTasks /\ ~WrittenResultIsPayload)

\* two tasks of one subject were pending together; the first was completed at
\* the higher level, the second has just been completed at BASIC, and the
\* stored level is BASIC
C34_Witness ==
    /\ lastCall.op = "respondToKYCTask" /\ lastCall.err = "OK" /\ lastCall.level = BASIC
    /\ \E t \in 1 .. MaxTasks, op \in operatorRegistered :
            LET u == tasks[lastCall.taskId].user
            IN  /\ t # lastCall.taskId
                /\ tasks[t].user = u
                /\ tasks[t].status = COMPLETED
                /\ taskResponses[t] = signResponse(op, t, u, MaxLevelArg, 1, This)
                /\ kycResults[u].level = BASIC
                /\ kycResults[u].active

\* ------------------------------------------------------------------- C35
\* the tasks a creation has stored
Created == 1 .. (nextTaskId - 1)

\* a step keeps every created task created, with its hash and every field
\* but the status, and changes a status only in a response for that task
HistoryStep ==
    \A t \in Created :
        /\ t < nextTaskId'
        /\ taskHashes'[t] = taskHashes[t]
        /\ tasks'[t] = [tasks[t] EXCEPT !.status = tasks'[t].status]
        /\ tasks'[t].status # tasks[t].status =>
            /\ lastCall'.op = "respondToKYCTask"
            /\ lastCall'.taskId = t

\* C35: a created task stays created and keeps its subject, required level,
\* creation block and request id under every operation; the one field that
\* changes is the status, and only in a respondToKYCTask call for that task.
C35_TaskHistoryAppendOnly == ~ENABLED (NextManyTasks /\ ~HistoryStep)

\* a first task was completed, a second one was created in a later block and
\* is pending, and the owner has since revoked a result
C35_Witness ==
    /\ lastCall.op = "revokeKYC"
    /\ Created = {1, 2}
    /\ tasks[1].status = COMPLETED
    /\ tasks[2].status = PENDING
    /\ tasks[2].taskCreatedBlock > tasks[1].taskCreatedBlock

\* ------------------------------------------------------------------- C37
\* C37: a registered operator's response fails with TaskNotFound exactly for
\* the task ids no creation has returned: every id a successful createKYCTask
\* or requestKYC returned, whatever subject the caller passed (the zero
\* address included), is treated as existing.
C37_NotFoundExactlyForUncreated ==
    \A t \in TaskId, op \in operatorRegistered, L \in {BASIC, MaxLevelArg} :
        OwnResponse(op, t, L).err = "TaskNotFound" <=> t \notin Created

\* ------------------------------------------------------------------- C39
\* the addresses that are neither an authorized caller nor the owner
Unauthorised == {a \in Sender : a \notin authorizedCallers /\ a # owner}

\* createKYCTask by an unauthorised address, for any subject and level
UnauthorisedCreationFails ==
    \A sender \in Unauthorised, user \in Address, level \in KYCLevel, requestId \in RequestIdArg :
        LET out == createKYCTaskOutcome(sender, user, level, requestId)
        IN  /\ out.err = "NotAuthorizedCaller"
            /\ out.nextTaskId = nextTaskId /\ out.tasks = tasks /\ out.taskHashes = taskHashes

\* requestKYC by any address: the task it creates is the caller's own
RequestIsForCaller ==
    \A sender \in Sender, level \in KYCLevel :
        LET out == requestKYCOutcome(sender, level)
        IN  /\ out.err # "NotAuthorizedCaller"
            /\ out.err = "OK" =>
                /\ out.tasks[out.taskId].user = sender
                /\ \A t \in TaskId \ {out.taskId} : out.tasks[t] = tasks[t]

\* C39: createKYCTask by an address that is neither an authorized caller nor
\* the owner fails with NotAuthorizedCaller and changes no state, whatever was
\* authorized before; requestKYC is open to every caller and the task it
\* creates has the caller as its subject.
C39_CreationAuthorisedPerEntryPoint ==
    /\ UnauthorisedCreationFails
    /\ RequestIsForCaller
    /\ \A sender \in Unauthorised, user \in Address, level \in KYCLevel, requestId \in RequestIdArg :
            ~ENABLED (createKYCTask(sender, user, level, requestId) /\ ~UNCHANGED ledger)

\* a createKYCTask call has just failed with NotAuthorizedCaller while tasks
\* exist and nobody but the owner is authorized
C39_Witness ==
    /\ lastCall.op = "createKYCTask"
    /\ lastCall.err = "NotAuthorizedCaller"
    /\ authorizedCallers = {}
    /\ nextTaskId > InitialNextTaskId

\* ------------------------------------------------------------------- C36
\* a callback of category c hands task t to processing in this step (232-235 /
\* 275-278: the key is added and getTask / getSubmission is awaited)
HandsToProcessing(c, s, t) ==
    /\ monitors[c][s].pc \in {"query", "submit"}
    /\ monitors'[c][s].pc = "getTask"
    /\ Head(monitors'[c][s].events) = t

\* the query of a callback of category c resolves in this step
QueryResolves(c, s) ==
    /\ monitors[c][s].pc = "query"
    /\ monitors'[c][s] # monitors[c][s]
    /\ serviceLog' = ServiceStep(c, "query")

\* C36: the memory of processed tasks, one set shared by the identity and the
\* project monitor, is keyed by category and task id: the keys of an identity
\* task and of a project task with the same id differ, a key enters the set
\* only when a callback of its own category hands that task to processing,
\* and a task a query returns whose own key is not in the set is processed
\* also when the other category's key of the same id is in the set.
C36_MemoryKeyedByCategory ==
    /\ [](\A t \in CategoryTaskId : key("kyc", t) # key("project", t))
    /\ [][ /\ \A k \in processedTaskKeys' \ processedTaskKeys :
                \E c \in Category, s \in 1 .. MonitorTicks, t \in CategoryTaskId :
                    k = key(c, t) /\ HandsToProcessing(c, s, t)
           /\ \A c \in Category, s \in 1 .. MonitorTicks, t \in CategoryTaskId :
                ( /\ QueryResolves(c, s)
                  /\ categoryEvents[c][t] \in monitors[c][s].fromBlock .. monitors[c][s].currentBlock
                  /\ categoryEvents[c][t] # 0
                  /\ key(c, t) \notin processedTaskKeys
                  /\ key(Other(c), t) \in processedTaskKeys )
                => /\ monitors'[c][s].pc = "getTask"
                   /\ key(c, t) \in {key(c, monitors'[c][s].events[i]) : i \in 1 .. Len(monitors'[c][s].events)}
         ]_allVars

\* the identity task 1 and the project task 1 are both in the memory, and a
\* callback of the project monitor is submitting its response for task 1
C36_Witness ==
    /\ key("kyc", 1) \in processedTaskKeys
    /\ key("project", 1) \in processedTaskKeys
    /\ \E s \in 1 .. MonitorTicks :
            /\ monitors["project"][s].pc = "submit"
            /\ Head(monitors["project"][s].events) = 1

\* ------------------------------------------------------------------- C40
\* the project contract's storage
ProjectStorage == <<latestTaskNum, projectSubmissions, verificationResults, operators>>

\* the submission the responder's task id names, as the contract holds it
ResponderTask == projectSubmissions[responder.taskId]

\* C40: the manual responder sends its response only after it has read, one
\* after the other, that its wallet is a registered operator and that the
\* task exists and is PENDING; a failed check ends the run without a
\* submission and without a change of the contract; and when the task is no
\* longer PENDING as the submission arrives, the contract rejects it and the
\* responder exits with code 1, the contract's storage unchanged.
C40_RespondsOnlyAfterItsChecks ==
    [][ responder' # responder =>
          /\ (responder'.submitted /\ ~responder.submitted) => responder.pc = "submit"
          /\ (responder'.pc = "submit" /\ responder.pc # "submit") =>
                /\ responder.pc = "getSubmission"
                /\ ResponderTask.owner # ZeroAddress
                /\ ResponderTask.status = PENDING
          /\ (responder'.pc = "getSubmission" /\ responder.pc # "getSubmission") =>
                /\ responder.pc = "operators"
                /\ responder.wallet \in operators
          /\ (responder.pc = "operators" /\ responder.wallet \notin operators) =>
                /\ responder'.pc = "exited" /\ ~responder'.submitted
                /\ UNCHANGED projectLedger
          /\ (responder.pc = "getSubmission" /\ (ResponderTask.owner = ZeroAddress \/ ResponderTask.status # PENDING)) =>
                /\ responder'.pc \in {"exited", "getResult"} /\ ~responder'.submitted
                /\ UNCHANGED projectLedger
          /\ responder.pc = "getResult" =>
                /\ responder'.pc = "exited" /\ ~responder'.submitted
                /\ UNCHANGED projectLedger
          /\ (responder.pc = "submit" /\ ResponderTask.status # PENDING) =>
                /\ responder'.pc = "exited" /\ responder'.exitCode = 1
                /\ UNCHANGED ProjectStorage
                /\ responder'.submitted =>
                     lastProjectCall' = ProjectCall("respondToTask", responder.wallet, responder.taskId, "TaskNotPending")
      ]_allVars

\* the responder found the task PENDING, another operator completed it before
\* the submission arrived, and the responder's transaction was rejected: it
\* has exited with code 1
C40_Witness ==
    /\ responder.pc = "exited"
    /\ responder.exitCode = 1
    /\ responder.submitted
    /\ ResponderTask.status = COMPLETED
    /\ verificationResults[responder.taskId].verifiedBy # responder.wallet
    /\ lastProjectCall = ProjectCall("respondToTask", responder.wallet, responder.taskId, "TaskNotPending")

====
